---- MODULE Spec2Model ----
(***************************************************************************)
(* A state-machine model of CamSim::Simulator (libcamsim/simulator.cpp):   *)
(* the configuration setters and their dirty flags, the timestamp          *)
(* scheduler, the lazily recreated shader set and output targets, the pass *)
(* sequence of simulate() and the output accessors; and of the objects a   *)
(* caller uses with it: Animation, TexData and Exporter.                   *)
(*                                                                         *)
(* Conventions.  QVector/QList values are functions over 0..n-1, so the    *)
(* indices are the indices of the code.  Timestamps are integer            *)
(* microseconds (long long).  The chip timings, which the code holds as    *)
(* doubles in seconds, are held as integers in units of 1/TimeScale        *)
(* microsecond, so that "x * 1e6" converted to long long is a truncating   *)
(* division by TimeScale.  Texture names are positive integers, 0 is no    *)
(* texture.  Every public member function is one action; call and ret      *)
(* record the last call and what it returned.                              *)
(*                                                                         *)
(* The specifications share the actions and differ in the arguments the    *)
(* caller passes: Spec (frame scheduling), SpecOutput (output targets),    *)
(* SpecConfig (configuration checks), SpecLoop (the frame loop of a        *)
(* caller), SpecBounds (animation bounds), SpecChip (chip timings),        *)
(* SpecFlow (flow outputs), SpecPasses (the passes of a frame), SpecExport *)
(* (read-back and export of images) and SpecAnimation (an Animation behind *)
(* its public interface).                                                  *)
(***************************************************************************)
EXTENDS Integers, Sequences, FiniteSets, TLC

VARIABLES
    _cameraAnimation,        \* Animation
    _cameraTransformation,   \* Transformation (setCameraTransformation)
    _scene,                  \* Scene
    _chipTiming,             \* ChipTiming
    _pmd,                    \* PMD
    _projection,             \* Projection
    _pipeline,               \* Pipeline
    _output,                 \* Output
    _customTransformation,   \* Transformation (setCustomTransformation)
    _recreateTimestamps,
    _startTimestamp,
    _endTimestamp,
    _haveLastFrameTimestamp,
    _lastFrameTimestamp,
    _recreateShaders,
    _programs,               \* the set of linked shader programs
    _recreateOutput,
    _timestamps,             \* QVector<long long>, one per sub-frame
    _cameraTransformations,  \* QVector<Transformation>, one per sub-frame
    _lightTransformations,   \* per sub-frame, one Transformation per light
    _objectTransformations,  \* per sub-frame, one Transformation per object
    _tex,                    \* the render targets: a record of handle vectors
    rendered,                \* GPU memory: for each texture and depth buffer
                             \* written since it was created, the timestamp
                             \* rendered into it and whether the last call of
                             \* simulate() wrote it (calls = 1) or an earlier
                             \* one (calls = 2)
    depthBufferPingPong,     \* the function-local static of simulate()
    passes,                  \* the render passes the last public call ran
    main_pc,                 \* the caller's position in its frame loop
    main_t,                  \* the caller's loop variable t
    exited,                  \* the process has terminated (std::exit or a crash)
    _keyframes,              \* the keyframes of an Animation of the caller
    keyframesGiven,          \* history: that Animation holds a list given to
                             \* its constructor (and what addKeyframe() made
                             \* of it)
    texData,                 \* a TexData of the caller
    _asyncExportFileNames,   \* Exporter: QList<QString>
    _asyncExports,           \* Exporter: QList<QFuture<bool>>, each future
                             \* with the arguments its task was started with
                             \* and what the task wrote to its file
    call,                    \* the last public call: [op, arg]
    ret,                     \* and the value it returned (0 for void)
    unsimulatedOutput,       \* history: no simulate() has returned since the
                             \* construction or the last call of setScene,
                             \* setPipeline, setOutput or setProjection
    unsimulatedSetter        \* history: setScene, setPipeline, setOutput,
                             \* setProjection, setChipTiming or
                             \* setCameraAnimation was called and no simulate()
                             \* has returned since

vars == <<_cameraAnimation, _cameraTransformation, _scene, _chipTiming, _pmd,
          _projection, _pipeline, _output, _customTransformation,
          _recreateTimestamps, _startTimestamp, _endTimestamp,
          _haveLastFrameTimestamp, _lastFrameTimestamp, _recreateShaders,
          _programs, _recreateOutput, _timestamps, _cameraTransformations,
          _lightTransformations, _objectTransformations, _tex, rendered,
          depthBufferPingPong, passes, main_pc, main_t, exited, _keyframes,
          keyframesGiven, texData, _asyncExportFileNames, _asyncExports,
          call, ret,
          unsimulatedOutput, unsimulatedSetter>>

configVars == <<_cameraAnimation, _cameraTransformation, _scene, _chipTiming,
                _pmd, _projection, _pipeline, _output, _customTransformation>>

timestampVars == <<_recreateTimestamps, _startTimestamp, _endTimestamp,
                   _haveLastFrameTimestamp, _lastFrameTimestamp>>

outputVars == <<_recreateShaders, _programs, _recreateOutput, _timestamps, _tex,
                depthBufferPingPong>>

\* what simulate() leaves behind beside the handles of its targets
resultVars == <<_cameraTransformations, _lightTransformations,
                _objectTransformations, rendered>>

callerVars == <<main_pc, main_t>>

\* the objects of the caller beside the Simulator
objectVars == <<_keyframes, keyframesGiven>>

\* a TexData and an Exporter of the caller
exportVars == <<texData, _asyncExportFileNames, _asyncExports>>

-----------------------------------------------------------------------------
(* Bounds of the model *)

\* simulate() is called with frame timestamps 0..MaxTime
MaxTime == 1
\* keyframe times of the animations are 0..MaxKeyTime
MaxKeyTime == 2
\* chip timings are 0..MaxChipTime units of 1/TimeScale microsecond
MaxChipTime == 2

\* images are MaxHeight - 1 or MaxHeight rows high
MaxHeight == 3

\* keyframe times of the Animation of the caller are 0..MaxAnimationTime
MaxAnimationTime == 3

\* Resolution of the chip timings: 1/TimeScale microsecond.  Thirds of a
\* microsecond represent the constructor's 1.0 / 60.0 seconds exactly.
TimeScale == 3

-----------------------------------------------------------------------------
(* Vectors *)

Size(v) == Cardinality(DOMAIN v)

EmptyVector == [i \in {} |-> 0]

\* conversion of a double to long long: truncation toward zero
Trunc(num, den) ==
    IF num >= 0 THEN num \div den ELSE -((-num) \div den)

-----------------------------------------------------------------------------
(* Animation (animation.hpp) *)

Keyframe(usecs, transf) == [t |-> usecs, transformation |-> transf]

\* A Transformation is held as its translation along one axis, the fraction
\* <<numerator, denominator>> in lowest terms (the code holds floats; the
\* rotation and the scaling are blended with the same alpha).
\* Transformation::Transformation(): no translation
DefaultTransformation == <<0, 1>>

\* the transformation that translates by the whole number x
Translation(x) == <<x, 1>>

\* Transformation::interpolate(p0, p1, alpha) with alpha = <<num, den>>:
\* (1 - alpha) * p0 + alpha * p1
TransformationInterpolate(p0, p1, alpha) ==
    LET n == (alpha[2] - alpha[1]) * p0[1] * p1[2] + alpha[1] * p1[1] * p0[2]
        d == alpha[2] * p0[2] * p1[2]
        g == CHOOSE k \in 1..d :
                 /\ n % k = 0 /\ d % k = 0
                 /\ \A m \in (k + 1)..d : n % m # 0 \/ d % m # 0
    IN  <<n \div g, d \div g>>

\* Animation::Animation(): no keyframes
DefaultAnimation == EmptyVector

startTime(keyframes) ==
    IF Size(keyframes) = 0 THEN 0 ELSE keyframes[0].t

endTime(keyframes) ==
    IF Size(keyframes) = 0 THEN 0 ELSE keyframes[Size(keyframes) - 1].t

\* Animation::load(filename), the keyframes and the result after the lines
\* that are left; a line is held as the keyframe it describes (its time in
\* units of 1/TimeScale microsecond, as "time" gives seconds in decimal) or
\* as not valid
RECURSIVE load(_, _, _)

RECURSIVE findKeyframeIndices(_, _, _, _)
\* findKeyframeIndices(keyframes, t, lowerIndex, higherIndex): the binary
\* search between a and b (first 0 and size - 1); it yields
\* <<lowerIndex, higherIndex>>
findKeyframeIndices(keyframes, t, a, b) ==
    IF b >= a
    THEN LET c == (a + b) \div 2
         IN  IF keyframes[c].t < t
             THEN findKeyframeIndices(keyframes, t, c + 1, b)
             ELSE IF keyframes[c].t > t
                  THEN findKeyframeIndices(keyframes, t, a, c - 1)
                  ELSE <<c, c>>
    ELSE <<b, a>>

\* QList::insert(i, value); append is insert(size), prepend is insert(0)
Insert(v, i, value) ==
    [k \in 0..Size(v) |-> IF k < i THEN v[k] ELSE IF k = i THEN value ELSE v[k - 1]]

\* Animation::addKeyframe(keyframe): the keyframes after the call
addKeyframe(keyframes, keyframe) ==
    IF Size(keyframes) = 0 THEN Insert(keyframes, 0, keyframe)
    ELSE IF keyframe.t > endTime(keyframes)
    THEN Insert(keyframes, Size(keyframes), keyframe)
    ELSE IF keyframe.t < startTime(keyframes)
    THEN Insert(keyframes, 0, keyframe)
    ELSE LET found == findKeyframeIndices(keyframes, keyframe.t, 0,
                                          Size(keyframes) - 1)
         IN  IF found[1] = found[2]
             THEN [keyframes EXCEPT ![found[1]] = keyframe]
             ELSE Insert(keyframes, found[2], keyframe)

load(keyframesBackup, keyframes, lines) ==
    IF lines = <<>> THEN [ok |-> TRUE, keyframes |-> keyframes]
    ELSE IF ~Head(lines).valid
    THEN [ok |-> FALSE, keyframes |-> keyframesBackup]
    ELSE load(keyframesBackup,
              addKeyframe(keyframes,
                          Keyframe(Trunc(Head(lines).time, TimeScale),
                                   Head(lines).transformation)),
              Tail(lines))

\* Variant of interpolate(t) that does not blend: between two keyframes it
\* yields the earlier one
interpolate_Stepwise(keyframes, t) ==
    IF Size(keyframes) = 0 THEN DefaultTransformation
    ELSE IF t <= startTime(keyframes) THEN keyframes[0].transformation
    ELSE IF t >= endTime(keyframes)
    THEN keyframes[Size(keyframes) - 1].transformation
    ELSE keyframes[findKeyframeIndices(keyframes, t, 0,
                                       Size(keyframes) - 1)[1]].transformation

\* Animation::interpolate(t)
interpolate(keyframes, t) ==
    IF Size(keyframes) = 0 THEN DefaultTransformation
    ELSE IF t <= startTime(keyframes) THEN keyframes[0].transformation
    ELSE IF t >= endTime(keyframes)
    THEN keyframes[Size(keyframes) - 1].transformation
    ELSE LET found == findKeyframeIndices(keyframes, t, 0, Size(keyframes) - 1)
             lower == keyframes[found[1]]
             higher == keyframes[found[2]]
         IN  IF found[1] = found[2]
             THEN lower.transformation
             ELSE \* alpha = 1 - (higher.t - t) / (higher.t - lower.t)
                  TransformationInterpolate(
                      lower.transformation, higher.transformation,
                      <<(higher.t - lower.t) - (higher.t - t),
                        higher.t - lower.t>>)

-----------------------------------------------------------------------------
(* Configuration types *)

OutputFlags ==
    {"rgb", "srgb", "pmd", "pmdCoordinates", "eyeSpacePositions",
     "customSpacePositions", "eyeSpaceNormals", "customSpaceNormals",
     "depthAndRange", "indices", "forwardFlow3D", "forwardFlow2D",
     "backwardFlow3D", "backwardFlow2D"}

OutputWith(S) == [f \in OutputFlags |-> f \in S]

\* Output::Output()
DefaultOutput == OutputWith({"rgb"})

\* Pipeline::Pipeline(), the fields the orchestration reads
DefaultPipeline ==
    [preprocLensDistortion |-> FALSE,
     postprocLensDistortion |-> FALSE,
     shadowMaps |-> FALSE,
     reflectiveShadowMaps |-> FALSE,
     subFrameTemporalSampling |-> TRUE,
     spatialSamples |-> [width |-> 1, height |-> 1],
     spatialSampleWeights |-> 0,
     temporalSamples |-> 1]

\* ChipTiming::ChipTiming(): 1/60 s, 1/60 s, 0
DefaultChipTiming ==
    [exposureTime |-> 50000, readoutTime |-> 50000, pauseTime |-> 0]

\* Projection::Projection(): 640 x 480
DefaultProjection == [w |-> 640, h |-> 480]

\* Light::Light(): shadowMap(true), reflectiveShadowMap(true)
DefaultLight == [shadowMap |-> TRUE, reflectiveShadowMap |-> TRUE]

\* Scene::Scene(): all lists empty
DefaultScene ==
    [lights |-> EmptyVector, lightAnimations |-> EmptyVector,
     objects |-> EmptyVector, objectAnimations |-> EmptyVector]

-----------------------------------------------------------------------------
(* Timestamp scheduler *)

\* Simulator::subFrames()
subFrames == IF _output.pmd THEN 4 ELSE 1

RECURSIVE MinStartTime(_, _, _)
\* the loops of recreateTimestampsIfNecessary() over the animations i, i+1, ...
MinStartTime(animations, i, acc) ==
    IF i >= Size(animations) THEN acc
    ELSE LET s == startTime(animations[i])
         IN  MinStartTime(animations, i + 1, IF s < acc THEN s ELSE acc)

RECURSIVE MaxEndTime(_, _, _)
MaxEndTime(animations, i, acc) ==
    IF i >= Size(animations) THEN acc
    ELSE LET e == endTime(animations[i])
         IN  MaxEndTime(animations, i + 1, IF e > acc THEN e ELSE acc)

\* The timestamp fields as they are now
TimestampFields ==
    [recreateTimestamps |-> _recreateTimestamps,
     startTimestamp |-> _startTimestamp,
     endTimestamp |-> _endTimestamp,
     haveLastFrameTimestamp |-> _haveLastFrameTimestamp]

\* Simulator::recreateTimestampsIfNecessary(): the timestamp fields after it
recreateTimestampsIfNecessary ==
    IF ~_recreateTimestamps THEN TimestampFields
    ELSE [recreateTimestamps |-> FALSE,
          startTimestamp |->
              MinStartTime(_scene.objectAnimations, 0,
                  MinStartTime(_scene.lightAnimations, 0,
                      startTime(_cameraAnimation))),
          endTimestamp |->
              MaxEndTime(_scene.objectAnimations, 0,
                  MaxEndTime(_scene.lightAnimations, 0,
                      endTime(_cameraAnimation))),
          haveLastFrameTimestamp |-> FALSE]

\* Simulator::subFrameDuration(): ChipTiming::subFrameDuration() * 1e6 as long long
subFrameDuration ==
    Trunc(_chipTiming.exposureTime + _chipTiming.readoutTime, TimeScale)

\* Variant of frameDuration() that converts to long long only once, at the end
frameDuration_ConvertedOnce ==
    Trunc((_chipTiming.exposureTime + _chipTiming.readoutTime) * subFrames
              + _chipTiming.pauseTime,
          TimeScale)

\* Simulator::frameDuration(): the long long product plus the double pause
\* time, the sum converted to long long
frameDuration ==
    Trunc(subFrameDuration * subFrames * TimeScale + _chipTiming.pauseTime,
          TimeScale)

\* Variant of nextFrameTimestamp() that does not advance by the frame duration
nextFrameTimestampValue_NoAdvance(f) ==
    IF f.haveLastFrameTimestamp
    THEN _lastFrameTimestamp
    ELSE f.startTimestamp

\* Simulator::nextFrameTimestamp(): its return value, given the fields that
\* recreateTimestampsIfNecessary() left
nextFrameTimestampValue(f) ==
    IF f.haveLastFrameTimestamp
    THEN _lastFrameTimestamp + frameDuration
    ELSE f.startTimestamp

SetTimestampFields(f) ==
    /\ _recreateTimestamps' = f.recreateTimestamps
    /\ _startTimestamp' = f.startTimestamp
    /\ _endTimestamp' = f.endTimestamp
    /\ _haveLastFrameTimestamp' = f.haveLastFrameTimestamp
    /\ UNCHANGED _lastFrameTimestamp

OutputSetters == {"setScene", "setPipeline", "setOutput", "setProjection"}

TimestampSetters == {"setChipTiming", "setCameraAnimation"}

\* a public call other than simulate(): it runs no render pass
Returns(op, arg, value) ==
    /\ call' = [op |-> op, arg |-> arg]
    /\ ret' = value
    /\ passes' = <<>>
    /\ unsimulatedOutput' = (unsimulatedOutput \/ op \in OutputSetters)
    /\ unsimulatedSetter' =
           (unsimulatedSetter \/ op \in OutputSetters \cup TimestampSetters)
    /\ UNCHANGED <<resultVars, objectVars, exportVars>>

StartTimestamp ==
    /\ ~exited
    /\ SetTimestampFields(recreateTimestampsIfNecessary)
    /\ Returns("startTimestamp", 0, recreateTimestampsIfNecessary.startTimestamp)
    /\ UNCHANGED <<configVars, outputVars, exited>>

EndTimestamp ==
    /\ ~exited
    /\ SetTimestampFields(recreateTimestampsIfNecessary)
    /\ Returns("endTimestamp", 0, recreateTimestampsIfNecessary.endTimestamp)
    /\ UNCHANGED <<configVars, outputVars, exited>>

SubFrameDuration ==
    /\ ~exited
    /\ Returns("subFrameDuration", 0, subFrameDuration)
    /\ UNCHANGED <<configVars, timestampVars, outputVars, exited>>

FrameDuration ==
    /\ ~exited
    /\ Returns("frameDuration", 0, frameDuration)
    /\ UNCHANGED <<configVars, timestampVars, outputVars, exited>>

NextFrameTimestamp ==
    /\ ~exited
    /\ SetTimestampFields(recreateTimestampsIfNecessary)
    /\ Returns("nextFrameTimestamp", 0,
               nextFrameTimestampValue(recreateTimestampsIfNecessary))
    /\ UNCHANGED <<configVars, outputVars, exited>>

-----------------------------------------------------------------------------
(* Configuration setters *)

\* Variant of setCameraAnimation() that leaves the timestamps valid
SetCameraAnimation_KeepsTimestamps(animation) ==
    /\ ~exited
    /\ _cameraAnimation' = animation
    /\ Returns("setCameraAnimation", 0, 0)
    /\ UNCHANGED <<_cameraTransformation, _scene, _chipTiming, _pmd, _projection,
                   _pipeline, _output, _customTransformation, timestampVars,
                   outputVars, exited>>

SetCameraAnimation(animation) ==
    /\ ~exited
    /\ _cameraAnimation' = animation
    /\ _recreateTimestamps' = TRUE
    /\ Returns("setCameraAnimation", 0, 0)
    /\ UNCHANGED <<_cameraTransformation, _scene, _chipTiming, _pmd, _projection,
                   _pipeline, _output, _customTransformation, _startTimestamp,
                   _endTimestamp, _haveLastFrameTimestamp, _lastFrameTimestamp,
                   outputVars, exited>>

SetCameraTransformation(transformation) ==
    /\ ~exited
    /\ _cameraTransformation' = transformation
    /\ Returns("setCameraTransformation", 0, 0)
    /\ UNCHANGED <<_cameraAnimation, _scene, _chipTiming, _pmd, _projection,
                   _pipeline, _output, _customTransformation, timestampVars,
                   outputVars, exited>>

\* Variant of setScene() that leaves the shader programs valid
SetScene_KeepsShaders(scene) ==
    /\ ~exited
    /\ _scene' = scene
    /\ _recreateTimestamps' = TRUE
    /\ _recreateOutput' = TRUE
    /\ Returns("setScene", 0, 0)
    /\ UNCHANGED <<_cameraAnimation, _cameraTransformation, _chipTiming, _pmd,
                   _projection, _pipeline, _output, _customTransformation,
                   _startTimestamp, _endTimestamp, _haveLastFrameTimestamp,
                   _lastFrameTimestamp, _recreateShaders, _programs,
                   _timestamps, _tex, depthBufferPingPong, exited>>

SetScene(scene) ==
    /\ ~exited
    /\ _scene' = scene
    /\ _recreateShaders' = TRUE
    /\ _recreateTimestamps' = TRUE
    /\ _recreateOutput' = TRUE
    /\ Returns("setScene", 0, 0)
    /\ UNCHANGED <<_cameraAnimation, _cameraTransformation, _chipTiming, _pmd,
                   _projection, _pipeline, _output, _customTransformation,
                   _startTimestamp, _endTimestamp, _haveLastFrameTimestamp,
                   _lastFrameTimestamp, _programs, _timestamps, _tex,
                   depthBufferPingPong, exited>>

SetChipTiming(chipTiming) ==
    /\ ~exited
    /\ _chipTiming' = chipTiming
    /\ _recreateTimestamps' = TRUE
    /\ Returns("setChipTiming", 0, 0)
    /\ UNCHANGED <<_cameraAnimation, _cameraTransformation, _scene, _pmd,
                   _projection, _pipeline, _output, _customTransformation,
                   _startTimestamp, _endTimestamp, _haveLastFrameTimestamp,
                   _lastFrameTimestamp, outputVars, exited>>

SetPMD(pmd) ==
    /\ ~exited
    /\ _pmd' = pmd
    /\ Returns("setPMD", 0, 0)
    /\ UNCHANGED <<_cameraAnimation, _cameraTransformation, _scene, _chipTiming,
                   _projection, _pipeline, _output, _customTransformation,
                   timestampVars, outputVars, exited>>

\* Variant of setProjection() that leaves the output targets valid
SetProjection_KeepsTargets(projection) ==
    /\ ~exited
    /\ _projection' = projection
    /\ Returns("setProjection", 0, 0)
    /\ UNCHANGED <<_cameraAnimation, _cameraTransformation, _scene, _chipTiming,
                   _pmd, _pipeline, _output, _customTransformation, timestampVars,
                   outputVars, exited>>

SetProjection(projection) ==
    /\ ~exited
    /\ _projection' = projection
    /\ _recreateOutput' = TRUE
    /\ Returns("setProjection", 0, 0)
    /\ UNCHANGED <<_cameraAnimation, _cameraTransformation, _scene, _chipTiming,
                   _pmd, _pipeline, _output, _customTransformation, timestampVars,
                   _recreateShaders, _programs, _timestamps, _tex,
                   depthBufferPingPong, exited>>

\* Variant of setPipeline() that leaves the shader programs valid
SetPipeline_KeepsShaders(pipeline) ==
    /\ ~exited
    /\ _pipeline' = pipeline
    /\ _recreateOutput' = TRUE
    /\ Returns("setPipeline", 0, 0)
    /\ UNCHANGED <<_cameraAnimation, _cameraTransformation, _scene, _chipTiming,
                   _pmd, _projection, _output, _customTransformation,
                   timestampVars, _recreateShaders, _programs, _timestamps, _tex,
                   depthBufferPingPong, exited>>

SetPipeline(pipeline) ==
    /\ ~exited
    /\ _pipeline' = pipeline
    /\ _recreateShaders' = TRUE
    /\ _recreateOutput' = TRUE
    /\ Returns("setPipeline", 0, 0)
    /\ UNCHANGED <<_cameraAnimation, _cameraTransformation, _scene, _chipTiming,
                   _pmd, _projection, _output, _customTransformation,
                   timestampVars, _programs, _timestamps, _tex,
                   depthBufferPingPong, exited>>

\* Variant of setOutput() that leaves the output targets valid
SetOutput_KeepsTargets(output) ==
    /\ ~exited
    /\ _output' = output
    /\ _recreateShaders' = TRUE
    /\ Returns("setOutput", 0, 0)
    /\ UNCHANGED <<_cameraAnimation, _cameraTransformation, _scene, _chipTiming,
                   _pmd, _projection, _pipeline, _customTransformation,
                   timestampVars, _recreateOutput, _programs, _timestamps, _tex,
                   depthBufferPingPong, exited>>

SetOutput(output) ==
    /\ ~exited
    /\ _output' = output
    /\ _recreateShaders' = TRUE
    /\ _recreateOutput' = TRUE
    /\ Returns("setOutput", 0, 0)
    /\ UNCHANGED <<_cameraAnimation, _cameraTransformation, _scene, _chipTiming,
                   _pmd, _projection, _pipeline, _customTransformation,
                   timestampVars, _programs, _timestamps, _tex,
                   depthBufferPingPong, exited>>

SetCustomTransformation(transformation) ==
    /\ ~exited
    /\ _customTransformation' = transformation
    /\ Returns("setCustomTransformation", 0, 0)
    /\ UNCHANGED <<_cameraAnimation, _cameraTransformation, _scene, _chipTiming,
                   _pmd, _projection, _pipeline, _output, timestampVars,
                   outputVars, exited>>

-----------------------------------------------------------------------------
(* Shader programs: recreateShadersIfNecessary() *)

AnyGeometryOutput ==
    \/ _output.eyeSpacePositions \/ _output.customSpacePositions
    \/ _output.eyeSpaceNormals \/ _output.customSpaceNormals
    \/ _output.depthAndRange \/ _output.indices

AnyFlowOutput ==
    \/ _output.forwardFlow3D \/ _output.forwardFlow2D
    \/ _output.backwardFlow3D \/ _output.backwardFlow2D

\* The sanity checks at the head of recreateShadersIfNecessary(): each one
\* ends in std::exit(1)
FatalConfiguration ==
    \/ Size(_scene.lights) < 1
    \/ Size(_scene.lights) # Size(_scene.lightAnimations)
    \/ Size(_scene.objects) # Size(_scene.objectAnimations)
    \/ _pipeline.spatialSamples.width < 1
    \/ _pipeline.spatialSamples.width % 2 # 1
    \/ _pipeline.spatialSamples.height < 1
    \/ _pipeline.spatialSamples.height % 2 # 1
    \/ /\ _pipeline.spatialSampleWeights > 0
       /\ _pipeline.spatialSampleWeights
              # _pipeline.spatialSamples.width * _pipeline.spatialSamples.height
    \/ _pipeline.temporalSamples < 1
    \/ _pipeline.preprocLensDistortion /\ _pipeline.postprocLensDistortion
    \/ /\ _pipeline.postprocLensDistortion
       /\ (_output.indices \/ AnyFlowOutput)

\* The programs recreateShadersIfNecessary() links for the configuration
LinkedPrograms ==
    (IF _pipeline.shadowMaps THEN {"shadowMapPrg"} ELSE {})
    \cup (IF _pipeline.reflectiveShadowMaps THEN {"reflectiveShadowMapPrg"} ELSE {})
    \cup {"depthPrg"}
    \cup (IF _output.rgb \/ _output.pmd
          THEN {"lightPrg", "lightOversampledPrg"}
               \cup (IF _output.pmd THEN {"pmdDigNumPrg"} ELSE {})
               \cup (IF subFrames > 1 /\ _output.rgb THEN {"rgbResultPrg"} ELSE {})
               \cup (IF subFrames > 1 /\ _output.pmd THEN {"pmdResultPrg"} ELSE {})
               \cup (IF _output.srgb THEN {"convertToSRGBPrg"} ELSE {})
               \cup (IF _output.pmdCoordinates THEN {"pmdCoordinatesPrg"} ELSE {})
          ELSE {})
    \cup (IF AnyGeometryOutput THEN {"geomPrg"} ELSE {})
    \cup (IF AnyFlowOutput THEN {"flowPrg"} ELSE {})
    \cup (IF _pipeline.postprocLensDistortion
          THEN {"postprocLensDistortionPrg"} ELSE {})

-----------------------------------------------------------------------------
(* Output targets: recreateOutputIfNecessary() *)

\* Texture names.  recreateOutputIfNecessary() deletes every target it owns
\* before it generates the new ones; glGenTextures is taken to hand out the
\* lowest unused names, so that the names are 1, 2, ... in the order of the
\* glGenTextures calls.
Gen(base, n) == [i \in 0..(n - 1) |-> base + 1 + i]

SceneLightCount == Size(_scene.lights)

\* number of lights before light l that have the flag
FlaggedBefore(flag, l) ==
    Cardinality({k \in 0..(l - 1) : _scene.lights[k][flag]})

\* one cube map per sub-frame and light that has the flag, else 0
LightMaps(base, flag, stride, offset) ==
    [subFrame \in 0..(subFrames - 1) |->
        [l \in 0..(SceneLightCount - 1) |->
            IF _scene.lights[l][flag]
            THEN base + stride * (subFrame * FlaggedBefore(flag, SceneLightCount)
                                  + FlaggedBefore(flag, l)) + offset
            ELSE 0]]

\* The glGenTextures calls of recreateOutputIfNecessary() after the shadow
\* maps, in the order of the code: <<target list, number of names>>
TargetPlan ==
    LET n == subFrames
        extra == IF subFrames > 1 THEN 1 ELSE 0
        If(c, k) == IF c THEN k ELSE 0
    IN  << <<"depthBufferOversampled", If(_output.rgb \/ _output.pmd, 1)>>,
           <<"rgbTexOversampled", If(_output.rgb, 1)>>,
           <<"pmdEnergyTexOversampled", If(_output.pmd, 1)>>,
           <<"pmdEnergyTex", If(_output.pmd, 1)>>,
           <<"pmdCoordinatesTex", If(_output.pmd /\ _output.pmdCoordinates, 1)>>,
           <<"depthBuffers", n + 1>>,
           <<"rgbTexs", If(_output.rgb, n + extra)>>,
           <<"srgbTexs", If(_output.rgb /\ _output.srgb, n + extra)>>,
           <<"pmdDigNumTexs", If(_output.pmd, n + extra)>>,
           <<"eyeSpacePosTexs", If(_output.eyeSpacePositions, n)>>,
           <<"customSpacePosTexs", If(_output.customSpacePositions, n)>>,
           <<"eyeSpaceNormalTexs", If(_output.eyeSpaceNormals, n)>>,
           <<"customSpaceNormalTexs", If(_output.customSpaceNormals, n)>>,
           <<"depthAndRangeTexs", If(_output.depthAndRange, n)>>,
           <<"indicesTexs", If(_output.indices, n)>>,
           <<"forwardFlow3DTexs", If(_output.forwardFlow3D, n + extra)>>,
           <<"forwardFlow2DTexs", If(_output.forwardFlow2D, n + extra)>>,
           <<"backwardFlow3DTexs", If(_output.backwardFlow3D, n + extra)>>,
           <<"backwardFlow2DTexs", If(_output.backwardFlow2D, n + extra)>>,
           <<"postProcessingTex", If(_pipeline.postprocLensDistortion, 1)>> >>

RECURSIVE PlanOffset(_, _)
\* number of names generated by the first k - 1 calls of the plan
PlanOffset(plan, k) ==
    IF k <= 1 THEN 0 ELSE PlanOffset(plan, k - 1) + plan[k - 1][2]

PlanIndex(plan, name) == CHOOSE k \in 1..Len(plan) : plan[k][1] = name

\* a target that is a single handle: 0 if it was not generated
Single(v) == IF Size(v) = 0 THEN 0 ELSE v[0]

\* element i of a list that exists, for the append loops
Elem(v, i) == IF i \in DOMAIN v THEN v[i] ELSE 0

\* QList::append over the lists that exist
Appended(lists) ==
    LET present == SelectSeq(lists, LAMBDA e : e[1])
    IN  [i \in 1..Len(present) |-> present[i][2]]

\* The targets of a Simulator that never created any
NoTargets ==
    [shadowMapDepthBufs |-> EmptyVector,
     reflectiveShadowMapDepthBufs |-> EmptyVector,
     reflectiveShadowMapTexs |-> EmptyVector,
     depthBufferOversampled |-> 0,
     rgbTexOversampled |-> 0,
     pmdEnergyTexOversampled |-> 0,
     pmdEnergyTex |-> 0,
     pmdCoordinatesTex |-> 0,
     depthBuffers |-> EmptyVector,
     rgbTexs |-> EmptyVector,
     srgbTexs |-> EmptyVector,
     pmdDigNumTexs |-> EmptyVector,
     eyeSpacePosTexs |-> EmptyVector,
     customSpacePosTexs |-> EmptyVector,
     eyeSpaceNormalTexs |-> EmptyVector,
     customSpaceNormalTexs |-> EmptyVector,
     depthAndRangeTexs |-> EmptyVector,
     indicesTexs |-> EmptyVector,
     forwardFlow3DTexs |-> EmptyVector,
     forwardFlow2DTexs |-> EmptyVector,
     backwardFlow3DTexs |-> EmptyVector,
     backwardFlow2DTexs |-> EmptyVector,
     postProcessingTex |-> 0,
     lightSimOutputTexs |-> EmptyVector,
     geomSimOutputTexs |-> EmptyVector,
     flowSimOutputTexs |-> EmptyVector,
     oversampledLightSimOutputTexs |-> <<>>]

\* recreateOutputIfNecessary(): the targets it creates for the configuration
RecreatedTargets ==
    LET n == subFrames
        extra == IF subFrames > 1 THEN 1 ELSE 0
        nSM == IF _pipeline.shadowMaps
               THEN n * FlaggedBefore("shadowMap", SceneLightCount) ELSE 0
        nRSM == IF _pipeline.reflectiveShadowMaps
                THEN n * FlaggedBefore("reflectiveShadowMap", SceneLightCount)
                ELSE 0
        base == nSM + 2 * nRSM
        plan == TargetPlan
        T(name) == LET k == PlanIndex(plan, name)
                   IN  Gen(base + PlanOffset(plan, k), plan[k][2])
    IN  [shadowMapDepthBufs |->
             IF _pipeline.shadowMaps
             THEN LightMaps(0, "shadowMap", 1, 1) ELSE EmptyVector,
         reflectiveShadowMapDepthBufs |->
             IF _pipeline.reflectiveShadowMaps
             THEN LightMaps(nSM, "reflectiveShadowMap", 2, 1) ELSE EmptyVector,
         reflectiveShadowMapTexs |->
             IF _pipeline.reflectiveShadowMaps
             THEN LightMaps(nSM, "reflectiveShadowMap", 2, 2) ELSE EmptyVector,
         depthBufferOversampled |-> Single(T("depthBufferOversampled")),
         rgbTexOversampled |-> Single(T("rgbTexOversampled")),
         pmdEnergyTexOversampled |-> Single(T("pmdEnergyTexOversampled")),
         pmdEnergyTex |-> Single(T("pmdEnergyTex")),
         pmdCoordinatesTex |-> Single(T("pmdCoordinatesTex")),
         depthBuffers |-> T("depthBuffers"),
         rgbTexs |-> T("rgbTexs"),
         srgbTexs |-> T("srgbTexs"),
         pmdDigNumTexs |-> T("pmdDigNumTexs"),
         eyeSpacePosTexs |-> T("eyeSpacePosTexs"),
         customSpacePosTexs |-> T("customSpacePosTexs"),
         eyeSpaceNormalTexs |-> T("eyeSpaceNormalTexs"),
         customSpaceNormalTexs |-> T("customSpaceNormalTexs"),
         depthAndRangeTexs |-> T("depthAndRangeTexs"),
         indicesTexs |-> T("indicesTexs"),
         forwardFlow3DTexs |-> T("forwardFlow3DTexs"),
         forwardFlow2DTexs |-> T("forwardFlow2DTexs"),
         backwardFlow3DTexs |-> T("backwardFlow3DTexs"),
         backwardFlow2DTexs |-> T("backwardFlow2DTexs"),
         postProcessingTex |-> Single(T("postProcessingTex")),
         lightSimOutputTexs |->
             [i \in 0..(n - 1) |->
                 Appended(<< <<_output.rgb, Elem(T("rgbTexs"), i)>>,
                             <<_output.pmd, Single(T("pmdEnergyTex"))>> >>)],
         geomSimOutputTexs |->
             [i \in 0..(n - 1) |->
                 Appended(<< <<_output.eyeSpacePositions, Elem(T("eyeSpacePosTexs"), i)>>,
                             <<_output.customSpacePositions, Elem(T("customSpacePosTexs"), i)>>,
                             <<_output.eyeSpaceNormals, Elem(T("eyeSpaceNormalTexs"), i)>>,
                             <<_output.customSpaceNormals, Elem(T("customSpaceNormalTexs"), i)>>,
                             <<_output.depthAndRange, Elem(T("depthAndRangeTexs"), i)>>,
                             <<_output.indices, Elem(T("indicesTexs"), i)>> >>)],
         flowSimOutputTexs |->
             [i \in 0..(n + extra - 1) |->
                 Appended(<< <<_output.forwardFlow3D, Elem(T("forwardFlow3DTexs"), i)>>,
                             <<_output.forwardFlow2D, Elem(T("forwardFlow2DTexs"), i)>>,
                             <<_output.backwardFlow3D, Elem(T("backwardFlow3DTexs"), i)>>,
                             <<_output.backwardFlow2D, Elem(T("backwardFlow2DTexs"), i)>> >>)],
         oversampledLightSimOutputTexs |->
             Appended(<< <<_output.rgb, Single(T("rgbTexOversampled"))>>,
                         <<_output.pmd, Single(T("pmdEnergyTexOversampled"))>> >>)]

-----------------------------------------------------------------------------
(* simulate() *)

\* Simulator::spatialOversampling(), Simulator::temporalOversampling()
spatialOversampling ==
    _pipeline.spatialSamples.width > 1 \/ _pipeline.spatialSamples.height > 1

temporalOversampling == _pipeline.temporalSamples > 1

\* Variant of simulateTimestamps(t) that gives every sub-frame the frame's
\* timestamp
simulateTimestamps_FrameOnly(t) ==
    [subFrame \in 0..(subFrames - 1) |-> t]

\* Simulator::simulateTimestamps(t): the sub-frame timestamps
simulateTimestamps(t) ==
    [subFrame \in 0..(subFrames - 1) |->
        IF _pipeline.subFrameTemporalSampling
        THEN t + subFrame * subFrameDuration
        ELSE t]

\* Simulator::simulateSampleTimestamp(t, ...): the transformations of the
\* targets with the given animations at time t
simulateSampleTimestamp(t, animations, count) ==
    [i \in 0..(count - 1) |-> interpolate(animations[i], t)]

\* One render pass: the program run, the sub-frame and temporal sample it
\* belongs to, the timestamp it renders, the depth buffer and the colour
\* attachments prepareFBO() binds, whether prepareFBO() clears the colour
\* attachments, the texture it reads, and for a flow pass the last and next
\* timestamps and the last depth buffer.
Pass(name, subFrame, sample, t, depthBuf, targets, clear, source) ==
    [pass |-> name, subFrame |-> subFrame, sample |-> sample, t |-> t,
     depthBuf |-> depthBuf, targets |-> targets, clear |-> clear,
     source |-> source, lastT |-> 0, nextT |-> 0, lastDepthBuf |-> 0]

FlowPass(subFrame, t, depthBuf, targets, lastT, nextT, lastDepthBuf) ==
    [pass |-> "flow", subFrame |-> subFrame, sample |-> 0, t |-> t,
     depthBuf |-> depthBuf, targets |-> targets, clear |-> TRUE,
     source |-> 0, lastT |-> lastT, nextT |-> nextT,
     lastDepthBuf |-> lastDepthBuf]

RECURSIVE ConcatRange(_, _, _)
\* f[lo] \o f[lo + 1] \o ... \o f[hi]
ConcatRange(f, lo, hi) ==
    IF lo > hi THEN <<>> ELSE f[lo] \o ConcatRange(f, lo + 1, hi)

\* QVector::operator[]: a read outside the vector is undefined; it yields oob
At(v, i, oob) == IF i \in DOMAIN v THEN v[i] ELSE oob

\* simulatePostprocLensDistortion(textures): one pass per texture
PostprocLensDistortionPasses(subFrame, t, tex, textures) ==
    [i \in 1..Len(textures) |->
        Pass("postprocLensDistortion", subFrame, 0, t, 0,
             <<tex.postProcessingTex>>, TRUE, textures[i])]

\* Variant of the passes of one temporal sample in which prepareFBO() clears
\* the light targets for every sample
LightSamplePasses_ClearsEverySample(subFrame, sample, ts, tex, oob) ==
    LET tempSampleDuration == subFrameDuration \div _pipeline.temporalSamples
        tempSampleTimestamp ==
            IF sample > 0
            THEN ts[subFrame] + sample * tempSampleDuration
            ELSE ts[subFrame]
    IN  (IF _pipeline.shadowMaps \/ _pipeline.reflectiveShadowMaps
         THEN <<Pass("shadowMaps", subFrame, sample, tempSampleTimestamp,
                     0, <<>>, TRUE, 0)>>
         ELSE <<>>)
        \o
        (IF spatialOversampling \/ temporalOversampling
         THEN <<Pass("light", subFrame, sample, tempSampleTimestamp,
                     tex.depthBufferOversampled,
                     tex.oversampledLightSimOutputTexs, TRUE, 0),
                Pass("oversampledLight", subFrame, sample, tempSampleTimestamp,
                     0, tex.lightSimOutputTexs[subFrame],
                     TRUE, 0)>>
         ELSE <<Pass("light", subFrame, sample, tempSampleTimestamp,
                     At(tex.depthBuffers, subFrame, oob),
                     tex.lightSimOutputTexs[subFrame], TRUE, 0)>>)

\* The passes of one temporal sample of the light simulation of a sub-frame
LightSamplePasses(subFrame, sample, ts, tex, oob) ==
    LET tempSampleDuration == subFrameDuration \div _pipeline.temporalSamples
        tempSampleTimestamp ==
            IF sample > 0
            THEN ts[subFrame] + sample * tempSampleDuration
            ELSE ts[subFrame]
    IN  (IF _pipeline.shadowMaps \/ _pipeline.reflectiveShadowMaps
         THEN <<Pass("shadowMaps", subFrame, sample, tempSampleTimestamp,
                     0, <<>>, TRUE, 0)>>
         ELSE <<>>)
        \o
        (IF spatialOversampling \/ temporalOversampling
         THEN <<Pass("light", subFrame, sample, tempSampleTimestamp,
                     tex.depthBufferOversampled,
                     tex.oversampledLightSimOutputTexs, TRUE, 0),
                Pass("oversampledLight", subFrame, sample, tempSampleTimestamp,
                     0, tex.lightSimOutputTexs[subFrame],
                     (~temporalOversampling) \/ sample = 0, 0)>>
         ELSE <<Pass("light", subFrame, sample, tempSampleTimestamp,
                     At(tex.depthBuffers, subFrame, oob),
                     tex.lightSimOutputTexs[subFrame], TRUE, 0)>>)

\* The light-based part of a sub-frame
LightPasses(subFrame, ts, tex, oob) ==
    IF ~(_output.rgb \/ _output.pmd) THEN <<>>
    ELSE ConcatRange([sample \in 0..(_pipeline.temporalSamples - 1) |->
                         LightSamplePasses(subFrame, sample, ts, tex, oob)],
                     0, _pipeline.temporalSamples - 1)
         \o
         (IF _output.pmd
          THEN <<Pass("pmdDigNums", subFrame, 0, ts[subFrame], 0,
                      <<At(tex.pmdDigNumTexs, subFrame, oob)>>, TRUE,
                      tex.pmdEnergyTex)>>
          ELSE <<>>)
         \o
         (IF _pipeline.postprocLensDistortion
          THEN PostprocLensDistortionPasses(subFrame, ts[subFrame], tex,
                                            tex.lightSimOutputTexs[subFrame])
          ELSE <<>>)
         \o
         (IF _output.srgb
          THEN <<Pass("convertToSRGB", subFrame, 0, ts[subFrame], 0,
                      <<At(tex.srgbTexs, subFrame, oob)>>, TRUE,
                      At(tex.rgbTexs, subFrame, oob))>>
          ELSE <<>>)

\* Variant of the geometry part that does not run for the indices output
GeometryPasses_WithoutIndices(subFrame, ts, tex, oob) ==
    IF ~(AnyGeometryOutput /\ ~_output.indices) THEN <<>>
    ELSE <<Pass("geometry", subFrame, 0, ts[subFrame],
                At(tex.depthBuffers, subFrame, oob), tex.geomSimOutputTexs[subFrame],
                TRUE, 0)>>

\* The geometry part of a sub-frame
GeometryPasses(subFrame, ts, tex, oob) ==
    IF ~AnyGeometryOutput THEN <<>>
    ELSE <<Pass("geometry", subFrame, 0, ts[subFrame],
                At(tex.depthBuffers, subFrame, oob), tex.geomSimOutputTexs[subFrame],
                TRUE, 0)>>
         \o
         (IF _pipeline.postprocLensDistortion
          THEN PostprocLensDistortionPasses(subFrame, ts[subFrame], tex,
                                            tex.geomSimOutputTexs[subFrame])
          ELSE <<>>)

\* The flow part of a sub-frame; haveLast is _haveLastFrameTimestamp and
\* pingPong the static depthBufferPingPong when the sub-frame starts
FlowPasses(subFrame, frameTimestamp, haveLast, pingPong, ts, tex, oob) ==
    IF ~AnyFlowOutput THEN <<>>
    ELSE
    LET lastSubFrameTimestamp ==
            IF subFrame = 0 /\ ~haveLast THEN frameTimestamp
            ELSE IF subFrame = 0
                 THEN _lastFrameTimestamp
                      + (IF _pipeline.subFrameTemporalSampling
                         THEN (subFrames - 1) * subFrameDuration ELSE 0)
                 ELSE ts[subFrame - 1]
        nextSubFrameTimestamp ==
            IF subFrame = subFrames - 1
            THEN frameTimestamp + frameDuration
            ELSE ts[subFrame + 1]
        swap == subFrame = 0 /\ haveLast /\ subFrames = 1
        depthBuffer ==
            IF swap
            THEN (IF pingPong THEN At(tex.depthBuffers, 1, oob)
                              ELSE At(tex.depthBuffers, 0, oob))
            ELSE At(tex.depthBuffers, subFrame, oob)
        lastSubFrameDepthBuffer ==
            IF subFrame = 0 /\ ~haveLast THEN 0
            ELSE IF subFrame = 0
                 THEN IF subFrames = 1
                      THEN (IF pingPong THEN At(tex.depthBuffers, 0, oob)
                                        ELSE At(tex.depthBuffers, 1, oob))
                      ELSE At(tex.depthBuffers, subFrames - 1, oob)
                 ELSE At(tex.depthBuffers, subFrame - 1, oob)
    IN  <<FlowPass(subFrame, ts[subFrame], depthBuffer,
                   tex.flowSimOutputTexs[subFrame], lastSubFrameTimestamp,
                   nextSubFrameTimestamp, lastSubFrameDepthBuffer)>>

\* The final-frame passes after the sub-frame loop
FinalPasses(frameTimestamp, haveLast, ts, tex, oob) ==
    IF subFrames <= 1 THEN <<>>
    ELSE (IF _output.rgb
          THEN <<Pass("rgbResult", subFrames, 0, frameTimestamp, 0,
                      <<At(tex.rgbTexs, subFrames, oob)>>, TRUE, 0)>>
               \o (IF _output.srgb
                   THEN <<Pass("convertToSRGB", subFrames, 0, frameTimestamp, 0,
                               <<At(tex.srgbTexs, subFrames, oob)>>, TRUE,
                               At(tex.rgbTexs, subFrames, oob))>>
                   ELSE <<>>)
          ELSE <<>>)
         \o
         (IF _output.pmd
          THEN <<Pass("pmdResult", subFrames, 0, frameTimestamp, 0,
                      <<At(tex.pmdDigNumTexs, subFrames, oob)>>, TRUE, 0)>>
               \o (IF _output.pmdCoordinates
                   THEN <<Pass("pmdCoordinates", subFrames, 0, frameTimestamp, 0,
                               <<tex.pmdCoordinatesTex>>, TRUE,
                               At(tex.pmdDigNumTexs, subFrames, oob))>>
                   ELSE <<>>)
          ELSE <<>>)
         \o
         (IF AnyFlowOutput
          THEN <<FlowPass(0, ts[0], At(tex.depthBuffers, subFrames, oob),
                          tex.flowSimOutputTexs[subFrames],
                          frameTimestamp - frameDuration,
                          frameTimestamp + frameDuration,
                          IF haveLast THEN At(tex.depthBuffers, 0, oob) ELSE 0)>>
          ELSE <<>>)

\* Variant of the pass sequence in which the flow pass of a sub-frame runs
\* before its geometry pass
PassSequence_FlowFirst(frameTimestamp, haveLast, pingPong, ts, tex, oob) ==
    ConcatRange([subFrame \in 0..(subFrames - 1) |->
                    LightPasses(subFrame, ts, tex, oob)
                    \o FlowPasses(subFrame, frameTimestamp, haveLast, pingPong,
                                  ts, tex, oob)
                    \o GeometryPasses(subFrame, ts, tex, oob)],
                0, subFrames - 1)
    \o FinalPasses(frameTimestamp, haveLast, ts, tex, oob)

\* The pass sequence of simulate(frameTimestamp) after the dirty state is
\* resolved
PassSequence(frameTimestamp, haveLast, pingPong, ts, tex, oob) ==
    ConcatRange([subFrame \in 0..(subFrames - 1) |->
                    LightPasses(subFrame, ts, tex, oob)
                    \o GeometryPasses(subFrame, ts, tex, oob)
                    \o FlowPasses(subFrame, frameTimestamp, haveLast, pingPong,
                                  ts, tex, oob)],
                0, subFrames - 1)
    \o FinalPasses(frameTimestamp, haveLast, ts, tex, oob)

\* a handle read outside its vector appears in the pass
ReadsOutOfRange(p, oob) ==
    \/ p.depthBuf = oob \/ p.source = oob \/ p.lastDepthBuf = oob
    \/ \E i \in 1..Len(p.targets) : p.targets[i] = oob

\* the pass p renders into the texture or depth buffer h
Writes(p, h) ==
    h > 0 /\ (p.depthBuf = h \/ \E i \in 1..Len(p.targets) : p.targets[i] = h)

\* the last of the first n passes of ps that renders into h, 0 if none does
LastWrite(ps, h, n) ==
    LET ks == {k \in 1..n : Writes(ps[k], h)}
    IN  IF ks = {} THEN 0 ELSE CHOOSE k \in ks : \A j \in ks : j <= k

\* the GPU memory after one call of simulate() ran the passes ps on the
\* memory mem
Rendered(mem, ps) ==
    LET written == {h \in UNION {{ps[k].depthBuf}
                                   \cup {ps[k].targets[i] :
                                            i \in 1..Len(ps[k].targets)} :
                                 k \in 1..Len(ps)} : h > 0}
    IN  [h \in written \cup DOMAIN mem |->
            IF h \in written
            THEN [t |-> ps[LastWrite(ps, h, Len(ps))].t, calls |-> 1]
            ELSE [t |-> mem[h].t, calls |-> 2]]

\* The outcomes of a read outside a vector: the process crashes (Crashes, which
\* is no handle), or the read yields whatever the memory holds (here: no
\* handle, or the handle 1)
Crashes == -1

OutOfRangeOutcomes == {Crashes, 0, 1}

\* Simulator::simulate(frameTimestamp).  The passes are first laid out with
\* Crashes in the place of every handle read outside its vector; if there is
\* such a read, what it does is chosen among OutOfRangeOutcomes.  (tex, reads
\* and bad are bound over one-element sets so that each is computed once.)
Simulate(frameTimestamp) ==
    /\ ~exited
    /\ call' = [op |-> "simulate", arg |-> frameTimestamp]
    /\ ret' = 0
    /\ UNCHANGED <<configVars, _recreateTimestamps, _startTimestamp,
                   _endTimestamp, objectVars, exportVars>>
    /\ IF _recreateShaders /\ FatalConfiguration
       THEN \* std::exit(1) in recreateShadersIfNecessary()
            /\ exited' = TRUE
            /\ passes' = <<>>
            /\ UNCHANGED <<_haveLastFrameTimestamp, _lastFrameTimestamp,
                           outputVars, resultVars, unsimulatedOutput,
                           unsimulatedSetter>>
       ELSE LET haveLast ==
                    IF _recreateShaders \/ _recreateOutput
                    THEN FALSE ELSE _haveLastFrameTimestamp
                ts == simulateTimestamps(frameTimestamp)
            IN  \E tex \in {IF _recreateOutput THEN RecreatedTargets ELSE _tex} :
                \E reads \in {PassSequence(frameTimestamp, haveLast,
                                           depthBufferPingPong, ts, tex, Crashes)} :
                \E bad \in {{i \in 1..Len(reads) :
                                ReadsOutOfRange(reads[i], Crashes)}} :
                /\ _programs' = IF _recreateShaders THEN LinkedPrograms
                                                    ELSE _programs
                /\ _recreateShaders' = FALSE
                /\ _tex' = tex
                /\ _recreateOutput' = FALSE
                /\ _timestamps' = ts
                /\ _cameraTransformations' =
                       [subFrame \in DOMAIN ts |->
                           interpolate(_cameraAnimation, ts[subFrame])]
                /\ _lightTransformations' =
                       [subFrame \in DOMAIN ts |->
                           simulateSampleTimestamp(ts[subFrame],
                               _scene.lightAnimations, Size(_scene.lights))]
                /\ _objectTransformations' =
                       [subFrame \in DOMAIN ts |->
                           simulateSampleTimestamp(ts[subFrame],
                               _scene.objectAnimations, Size(_scene.objects))]
                /\ depthBufferPingPong' =
                       IF AnyFlowOutput /\ haveLast /\ subFrames = 1
                       THEN ~depthBufferPingPong ELSE depthBufferPingPong
                /\ \E oob \in IF bad = {} THEN {0} ELSE OutOfRangeOutcomes :
                       IF bad # {} /\ oob = Crashes
                       THEN /\ passes' =
                                  SubSeq(reads, 1,
                                         (CHOOSE i \in bad : \A j \in bad : i <= j) - 1)
                            /\ exited' = TRUE
                            /\ UNCHANGED rendered
                            /\ _haveLastFrameTimestamp' = haveLast
                            /\ UNCHANGED <<_lastFrameTimestamp, unsimulatedOutput,
                                           unsimulatedSetter>>
                       ELSE /\ passes' =
                                  IF bad = {} THEN reads
                                  ELSE PassSequence(frameTimestamp, haveLast,
                                                    depthBufferPingPong, ts, tex,
                                                    oob)
                            /\ exited' = FALSE
                            /\ rendered' =
                                  Rendered(IF _recreateOutput THEN EmptyVector
                                                              ELSE rendered,
                                           passes')
                            /\ _lastFrameTimestamp' = frameTimestamp
                            /\ _haveLastFrameTimestamp' = TRUE
                            /\ unsimulatedOutput' = FALSE
                            /\ unsimulatedSetter' = FALSE

-----------------------------------------------------------------------------
(* Retrieving simulation results *)

\* Simulator::getTimestamp(i); oob is what a read outside _timestamps yields
getTimestamp(i, oob) ==
    IF ~_haveLastFrameTimestamp \/ i < -1 \/ i >= subFrames
    THEN 0
    ELSE At(_timestamps, IF i < 0 THEN 0 ELSE i, oob)

\* Simulator::haveValidOutput(i)
haveValidOutput(i) ==
    ~_recreateOutput /\ _haveLastFrameTimestamp /\ i >= -1 /\ i < subFrames

\* Simulator::haveShadowMap(lightIndex)
haveShadowMap(lightIndex) ==
    /\ _pipeline.shadowMaps
    /\ lightIndex >= 0
    /\ lightIndex < Size(_scene.lights)
    /\ _scene.lights[lightIndex].shadowMap

\* Simulator::haveReflectiveShadowMap(lightIndex)
haveReflectiveShadowMap(lightIndex) ==
    /\ _pipeline.reflectiveShadowMaps
    /\ lightIndex >= 0
    /\ lightIndex < Size(_scene.lights)
    /\ _scene.lights[lightIndex].reflectiveShadowMap

\* QVector::last()
Last(v) == v[Size(v) - 1]

\* "i == -1 ? v[0] : v[i]" and "i == -1 ? v.last() : v[i]"
FirstOrAt(v, i) == IF i = -1 THEN v[0] ELSE v[i]
LastOrAt(v, i) == IF i = -1 THEN Last(v) ELSE v[i]

getShadowMapCubeTex(lightIndex, i) ==
    IF haveValidOutput(i) /\ haveShadowMap(lightIndex)
    THEN FirstOrAt(_tex.shadowMapDepthBufs, i)[lightIndex] ELSE 0

getReflectiveShadowMapCubeArrayTex(lightIndex, i) ==
    IF haveValidOutput(i) /\ haveReflectiveShadowMap(lightIndex)
    THEN FirstOrAt(_tex.reflectiveShadowMapTexs, i)[lightIndex] ELSE 0

getDepthTex(i) ==
    IF /\ \/ (~spatialOversampling /\ ~temporalOversampling)
          \/ AnyGeometryOutput
          \/ AnyFlowOutput
       /\ haveValidOutput(i)
    THEN FirstOrAt(_tex.depthBuffers, i) ELSE 0

getRGBTex(i) ==
    IF _output.rgb /\ haveValidOutput(i)
    THEN LastOrAt(_tex.rgbTexs, i) ELSE 0

getSRGBTex(i) ==
    IF _output.rgb /\ _output.srgb /\ haveValidOutput(i)
    THEN LastOrAt(_tex.srgbTexs, i) ELSE 0

getPMDTex(i) ==
    IF _output.pmd /\ haveValidOutput(i)
    THEN LastOrAt(_tex.pmdDigNumTexs, i) ELSE 0

getPMDCoordinatesTex ==
    IF _output.pmd /\ _output.pmdCoordinates /\ haveValidOutput(-1)
    THEN _tex.pmdCoordinatesTex ELSE 0

getEyeSpacePositionsTex(i) ==
    IF _output.eyeSpacePositions /\ haveValidOutput(i)
    THEN FirstOrAt(_tex.eyeSpacePosTexs, i) ELSE 0

getCustomSpacePositionsTex(i) ==
    IF _output.customSpacePositions /\ haveValidOutput(i)
    THEN FirstOrAt(_tex.customSpacePosTexs, i) ELSE 0

getEyeSpaceNormalsTex(i) ==
    IF _output.eyeSpaceNormals /\ haveValidOutput(i)
    THEN FirstOrAt(_tex.eyeSpaceNormalTexs, i) ELSE 0

getCustomSpaceNormalsTex(i) ==
    IF _output.customSpaceNormals /\ haveValidOutput(i)
    THEN FirstOrAt(_tex.customSpaceNormalTexs, i) ELSE 0

getDepthAndRangeTex(i) ==
    IF _output.depthAndRange /\ haveValidOutput(i)
    THEN FirstOrAt(_tex.depthAndRangeTexs, i) ELSE 0

getIndicesTex(i) ==
    IF _output.indices /\ haveValidOutput(i)
    THEN FirstOrAt(_tex.indicesTexs, i) ELSE 0

getForwardFlow3DTex(i) ==
    IF _output.forwardFlow3D /\ haveValidOutput(i)
    THEN LastOrAt(_tex.forwardFlow3DTexs, i) ELSE 0

getForwardFlow2DTex(i) ==
    IF _output.forwardFlow2D /\ haveValidOutput(i)
    THEN LastOrAt(_tex.forwardFlow2DTexs, i) ELSE 0

getBackwardFlow3DTex(i) ==
    IF _output.backwardFlow3D /\ haveValidOutput(i)
    THEN LastOrAt(_tex.backwardFlow3DTexs, i) ELSE 0

getBackwardFlow2DTex(i) ==
    IF _output.backwardFlow2D /\ haveValidOutput(i)
    THEN LastOrAt(_tex.backwardFlow2DTexs, i) ELSE 0

\* TexData::TexData(tex, ...) and TexData::setTexture(): the size of the data;
\* a texture has the size prepareOutputTexs() gave it
TexData(tex, channels) ==
    IF tex = 0
    THEN [w |-> 0, h |-> 0, channels |-> 0]
    ELSE [w |-> _projection.w, h |-> _projection.h, channels |-> channels]

\* Variant of the loop "reverse y direction" that runs over every row
RECURSIVE reverseY_EveryRow(_, _, _)
reverseY_EveryRow(packedData, y, texH) ==
    IF y < texH
    THEN reverseY_EveryRow([packedData EXCEPT ![y] = packedData[texH - 1 - y],
                                              ![texH - 1 - y] = packedData[y]],
                           y + 1, texH)
    ELSE packedData

\* The loop "reverse y direction" of TexData::setTexture() from row y on:
\* the rows y and texH - 1 - y are exchanged
RECURSIVE reverseY(_, _, _)
reverseY(packedData, y, texH) ==
    IF y < texH \div 2
    THEN reverseY([packedData EXCEPT ![y] = packedData[texH - 1 - y],
                                     ![texH - 1 - y] = packedData[y]],
                  y + 1, texH)
    ELSE packedData

\* TexData::TexData(tex, ...), TexData::setTexture(): the data retrieved from
\* the texture tex.  glGetTextureSubImage() delivers the rows of the texture
\* from row 0 on; row r of a texture that holds the rendering of timestamp t
\* is held as <<t, r>> (t = -1: nothing was rendered).  frame is history: the
\* frame simulate() simulated last when the data was retrieved.
setTexture(tex, channels) ==
    IF tex = 0
    THEN [w |-> 0, h |-> 0, channels |-> 0, packedData |-> EmptyVector,
          frame |-> 0]
    ELSE [w |-> _projection.w, h |-> _projection.h, channels |-> channels,
          packedData |->
              reverseY([r \in 0..(_projection.h - 1) |->
                           <<IF tex \in DOMAIN rendered THEN rendered[tex].t
                                                        ELSE -1, r>>],
                       0, _projection.h),
          frame |-> _lastFrameTimestamp]

\* static const Transformation NullTransformation
NullTransformation == DefaultTransformation

\* "i == -1 ? table[index][0] : table[index][i]" of getLightTransformation()
\* and getObjectTransformation(); oob is what a read outside the table yields
TableRead(table, index, i, oob) ==
    LET j == IF i = -1 THEN 0 ELSE i
    IN  IF index \in DOMAIN table
        THEN At(table[index], j, oob)
        ELSE oob

\* Simulator::getLightTransformation(lightIndex, i)
getLightTransformation(lightIndex, i, oob) ==
    IF lightIndex >= 0 /\ lightIndex < Size(_scene.lights) /\ haveValidOutput(i)
    THEN TableRead(_lightTransformations, lightIndex, i, oob)
    ELSE NullTransformation

\* Simulator::getObjectTransformation(objectIndex, i)
getObjectTransformation(objectIndex, i, oob) ==
    IF /\ objectIndex >= 0 /\ objectIndex < Size(_scene.objects)
       /\ haveValidOutput(i)
    THEN TableRead(_objectTransformations, objectIndex, i, oob)
    ELSE NullTransformation

-----------------------------------------------------------------------------
(* Inputs *)

\* the strictly increasing sequences of at most two key times
KeyTimeLists ==
    {<<>>}
    \cup {<<a>> : a \in 0..MaxKeyTime}
    \cup {ab \in (0..MaxKeyTime) \X (0..MaxKeyTime) : ab[1] < ab[2]}

\* the animation addKeyframe() builds from key times in ascending order
AnimationOf(times) ==
    [i \in 0..(Len(times) - 1) |-> Keyframe(times[i + 1], DefaultTransformation)]

Animations == {AnimationOf(times) : times \in KeyTimeLists}

\* a scene of lights and objects with the given animations
SceneOf(lights, lightAnimations, objects, objectAnimations) ==
    [lights |-> lights, lightAnimations |-> lightAnimations,
     objects |-> objects, objectAnimations |-> objectAnimations]

Vector1(a) == [i \in 0..0 |-> a]
Vector2(a, b) == [i \in 0..1 |-> IF i = 0 THEN a ELSE b]

\* one light that does not move
StaticScene ==
    SceneOf(Vector1(DefaultLight), Vector1(AnimationOf(<<0>>)),
            EmptyVector, EmptyVector)

\* one light that does not move and one object that moves from 1 to MaxKeyTime
MovingScene ==
    SceneOf(Vector1(DefaultLight), Vector1(AnimationOf(<<0>>)),
            Vector1("object"), Vector1(AnimationOf(<<1, MaxKeyTime>>)))

\* chip timings of n units each
ChipTimingOf(exposureTime, readoutTime, pauseTime) ==
    [exposureTime |-> exposureTime, readoutTime |-> readoutTime,
     pauseTime |-> pauseTime]

-----------------------------------------------------------------------------
(* The Simulator behind its public interface *)

\* The values an uninitialized long long member may hold
UninitializedValues == {0, MaxTime + 1}

\* Simulator::Simulator(): _startTimestamp, _endTimestamp,
\* _haveLastFrameTimestamp and _lastFrameTimestamp are not initialized
Init ==
    /\ _cameraAnimation = DefaultAnimation
    /\ _cameraTransformation = DefaultTransformation
    /\ _scene = DefaultScene
    /\ _chipTiming = DefaultChipTiming
    /\ _pmd = "PMD"
    /\ _projection = DefaultProjection
    /\ _pipeline = DefaultPipeline
    /\ _output = DefaultOutput
    /\ _customTransformation = DefaultTransformation
    /\ _recreateTimestamps = TRUE
    /\ _startTimestamp \in UninitializedValues
    /\ _endTimestamp \in UninitializedValues
    /\ _haveLastFrameTimestamp \in BOOLEAN
    /\ _lastFrameTimestamp \in UninitializedValues
    /\ _recreateShaders = TRUE
    /\ _programs = {}
    /\ _recreateOutput = TRUE
    /\ _timestamps = EmptyVector
    /\ _cameraTransformations = EmptyVector
    /\ _lightTransformations = EmptyVector
    /\ _objectTransformations = EmptyVector
    /\ _tex = NoTargets
    /\ rendered = EmptyVector
    /\ depthBufferPingPong = TRUE
    /\ passes = <<>>
    /\ main_pc = "setup"
    /\ main_t = 0
    /\ exited = FALSE
    /\ _keyframes = DefaultAnimation
    /\ keyframesGiven = FALSE
    /\ texData = [w |-> 0, h |-> 0, channels |-> 0, packedData |-> EmptyVector,
                  frame |-> 0]
    /\ _asyncExportFileNames = EmptyVector
    /\ _asyncExports = EmptyVector
    /\ call = [op |-> "Simulator", arg |-> 0]
    /\ ret = 0
    /\ unsimulatedOutput = TRUE
    /\ unsimulatedSetter = FALSE

\* The Simulator is constructed and not used: its uninitialized members keep
\* one of the values they may hold
InitObjects ==
    /\ Init
    /\ _startTimestamp = 0 /\ _endTimestamp = 0
    /\ _haveLastFrameTimestamp = FALSE /\ _lastFrameTimestamp = 0

\* a call on an object beside the Simulator: it leaves the Simulator alone
ObjectCall(op, arg, value) ==
    /\ call' = [op |-> op, arg |-> arg]
    /\ ret' = value
    /\ UNCHANGED <<configVars, timestampVars, outputVars, resultVars,
                   passes, callerVars, exited, unsimulatedOutput,
                   unsimulatedSetter>>

\* A call made while the caller sets up and tries the simulator
Call(A) == main_pc = "setup" /\ A /\ UNCHANGED callerVars

\* The configuration setters, called with arguments from the given sets
Configuration(scenes, animations, timings, projections, pipelines, outputs) ==
    \/ \E a \in animations : Call(SetCameraAnimation(a))
    \/ Call(SetCameraTransformation(DefaultTransformation))
    \/ \E s \in scenes : Call(SetScene(s))
    \/ \E c \in timings : Call(SetChipTiming(c))
    \/ Call(SetPMD("PMD"))
    \/ \E p \in projections : Call(SetProjection(p))
    \/ \E p \in pipelines : Call(SetPipeline(p))
    \/ \E o \in outputs : Call(SetOutput(o))
    \/ Call(SetCustomTransformation(DefaultTransformation))

\* The public interface, called with arguments from the given sets
Interface(scenes, animations, timings, projections, pipelines, outputs, times) ==
    \/ Configuration(scenes, animations, timings, projections, pipelines,
                     outputs)
    \/ Call(StartTimestamp)
    \/ Call(EndTimestamp)
    \/ Call(SubFrameDuration)
    \/ Call(FrameDuration)
    \/ Call(NextFrameTimestamp)
    \/ \E t \in times : Call(Simulate(t))

-----------------------------------------------------------------------------
(* Frame scheduling: a sensor that is configured, queried and simulated in any
   order *)

CameraAnimations == {AnimationOf(<<0, MaxKeyTime>>)}
ChipTimings == {ChipTimingOf(2, TimeScale, 1)}
Projections == {[w |-> 800, h |-> 600]}
Pipelines == {[DefaultPipeline EXCEPT !.subFrameTemporalSampling = FALSE]}
Outputs == {OutputWith({"rgb", "pmd"})}

Next ==
    Interface({MovingScene}, CameraAnimations, ChipTimings, Projections,
              Pipelines, Outputs, 0..MaxTime)

Spec == Init /\ [][Next]_vars

\* The calls that only ask: they change no configuration
Queries ==
    {"startTimestamp", "endTimestamp", "subFrameDuration", "frameDuration",
     "nextFrameTimestamp"}

\* The sub-frame indices and light indices the accessors are asked for
AccessorIndices == -2..5
LightIndices == -1..2

\* What every output accessor returns now
AccessorResults ==
    [i \in AccessorIndices |->
        [getDepthTex |-> getDepthTex(i),
         getRGBTex |-> getRGBTex(i),
         getSRGBTex |-> getSRGBTex(i),
         getPMDTex |-> getPMDTex(i),
         getPMDCoordinatesTex |-> getPMDCoordinatesTex,
         getEyeSpacePositionsTex |-> getEyeSpacePositionsTex(i),
         getCustomSpacePositionsTex |-> getCustomSpacePositionsTex(i),
         getEyeSpaceNormalsTex |-> getEyeSpaceNormalsTex(i),
         getCustomSpaceNormalsTex |-> getCustomSpaceNormalsTex(i),
         getDepthAndRangeTex |-> getDepthAndRangeTex(i),
         getIndicesTex |-> getIndicesTex(i),
         getForwardFlow3DTex |-> getForwardFlow3DTex(i),
         getForwardFlow2DTex |-> getForwardFlow2DTex(i),
         getBackwardFlow3DTex |-> getBackwardFlow3DTex(i),
         getBackwardFlow2DTex |-> getBackwardFlow2DTex(i),
         getShadowMapCubeTex |->
             [l \in LightIndices |-> getShadowMapCubeTex(l, i)],
         getReflectiveShadowMapCubeArrayTex |->
             [l \in LightIndices |-> getReflectiveShadowMapCubeArrayTex(l, i)]]]

\* C1: when simulate(t) has returned, the nextFrameTimestamp() call that
\* follows it returns t + frameDuration(), whatever was or was not called
\* before simulate(t).
C1_NextFrameAfterSimulate ==
    [][(call.op = "simulate" /\ ~exited /\ call'.op = "nextFrameTimestamp")
          => ret' = call.arg + frameDuration]_vars

\* C2: when simulate(t) has returned, the accessor of every enabled output
\* kind returns a handle that is not 0, and a call of startTimestamp(),
\* endTimestamp(), nextFrameTimestamp(), subFrameDuration() or frameDuration()
\* changes no accessor result.
C2_AccessorsStableUnderQueries ==
    [][/\ (call'.op = "simulate" /\ ~exited')
            => /\ _output'.rgb => getRGBTex(-1)' # 0
               /\ _output'.pmd => getPMDTex(-1)' # 0
       /\ (call'.op \in Queries) => AccessorResults' = AccessorResults]_vars

\* C4: while simulate() has not been called since the most recent call of
\* setScene, setPipeline, setOutput, setProjection, setChipTiming or
\* setCameraAnimation, nextFrameTimestamp() returns what startTimestamp()
\* returns.
C4_NextFrameIsStartAfterSetter ==
    (call.op = "nextFrameTimestamp" /\ unsimulatedSetter)
        => ret = recreateTimestampsIfNecessary.startTimestamp

\* C5: when simulate(t) returns, none of the three dirty flags is set.
C5_NoDirtyFlagAfterSimulate ==
    (call.op = "simulate" /\ ~exited)
        => ~_recreateTimestamps /\ ~_recreateShaders /\ ~_recreateOutput

\* C10: when simulate(t) has returned, getTimestamp(i) is
\* t + i * subFrameDuration() for every sub-frame i if the pipeline samples
\* the sub-frames in time and t if it does not, and getTimestamp(-1) is
\* getTimestamp(0), which is t.
C10_SubFrameTimestamps ==
    (call.op = "simulate" /\ ~exited)
        => \A oob \in OutOfRangeOutcomes :
              /\ \A i \in 0..(subFrames - 1) :
                     getTimestamp(i, oob)
                         = IF _pipeline.subFrameTemporalSampling
                           THEN call.arg + i * subFrameDuration
                           ELSE call.arg
              /\ getTimestamp(-1, oob) = getTimestamp(0, oob)
              /\ getTimestamp(0, oob) = call.arg

\* simulate(t) with t > 0 has returned for four sub-frames that are sampled
\* in time and last longer than nothing
C10_Witness ==
    /\ call.op = "simulate" /\ ~exited /\ call.arg > 0
    /\ subFrames = 4 /\ _pipeline.subFrameTemporalSampling
    /\ subFrameDuration > 0
    /\ getTimestamp(3, 0) = call.arg + 3 * subFrameDuration

\* the transformations a read outside a table may yield
OutOfRangeTransformations == {DefaultTransformation, Translation(MaxKeyTime)}

\* the read "table[index][i]" stays inside the table
InsideTable(table, index, i) ==
    index \in DOMAIN table /\ i \in DOMAIN table[index]

\* C11: after simulate(t), for every light l of the scene and every
\* sub-frame i, getLightTransformation(l, i) is the transformation of light l
\* interpolated at the timestamp of sub-frame i, getLightTransformation(l, -1)
\* equals getLightTransformation(l, 0), the same holds for
\* getObjectTransformation and the objects, and neither call reads outside
\* the stored table.
C11_TransformationAccessors ==
    (call.op = "simulate" /\ ~exited) =>
        \A i \in 0..(subFrames - 1) : \A oob \in OutOfRangeTransformations :
            /\ \A l \in DOMAIN _scene.lights :
                   /\ InsideTable(_lightTransformations, l, i)
                   /\ getLightTransformation(l, i, oob)
                        = interpolate(_scene.lightAnimations[l], _timestamps[i])
                   /\ getLightTransformation(l, -1, oob)
                        = getLightTransformation(l, 0, oob)
            /\ \A o \in DOMAIN _scene.objects :
                   /\ InsideTable(_objectTransformations, o, i)
                   /\ getObjectTransformation(o, i, oob)
                        = interpolate(_scene.objectAnimations[o], _timestamps[i])
                   /\ getObjectTransformation(o, -1, oob)
                        = getObjectTransformation(o, 0, oob)

\* C26: simulate() rebuilds neither the shader programs nor the render
\* targets if no configuration setter was called since the call of simulate()
\* before.  setScene, setPipeline and setOutput make the next call of
\* simulate() rebuild the shader programs, and setProjection, setPipeline and
\* setOutput make it recreate every render target (nothing rendered before is
\* left); setPMD, setCameraTransformation and setCustomTransformation alone
\* cause neither.
C26_RebuildOnlyAfterSetters ==
    [][/\ (/\ call'.op = "simulate" /\ ~exited'
           /\ ~unsimulatedOutput /\ ~unsimulatedSetter)
              => /\ ~_recreateShaders /\ ~_recreateOutput
                 /\ _programs' = _programs /\ _tex' = _tex
       /\ call'.op \in {"setScene", "setPipeline", "setOutput"}
              => _recreateShaders'
       /\ call'.op \in {"setProjection", "setPipeline", "setOutput"}
              => _recreateOutput'
       /\ call'.op # "simulate"
              => /\ _recreateShaders => _recreateShaders'
                 /\ _recreateOutput => _recreateOutput'
                 /\ _programs' = _programs /\ _tex' = _tex
       /\ call'.op \in {"setPMD", "setCameraTransformation",
                        "setCustomTransformation"}
              => /\ _recreateShaders' = _recreateShaders
                 /\ _recreateOutput' = _recreateOutput
       /\ (call'.op = "simulate" /\ ~exited' /\ _recreateShaders)
              => _programs' = LinkedPrograms
       /\ (call'.op = "simulate" /\ ~exited' /\ _recreateOutput)
              => /\ _tex' = RecreatedTargets
                 /\ \A h \in DOMAIN rendered' : rendered'[h].calls = 1]_vars

\* setPMD() was called after a frame was simulated, and no other setter: the
\* next call of simulate() has nothing to rebuild
C26_Witness ==
    /\ call.op = "setPMD" /\ ~exited
    /\ ~unsimulatedOutput /\ ~unsimulatedSetter
    /\ _haveLastFrameTimestamp /\ _programs # {}

\* C29: getTimestamp(i) returns 0 while no frame was simulated since the
\* construction or since the outputs were set, and else the timestamp of
\* sub-frame i of the last call of simulate(); it reads _timestamps inside the
\* vector only, and what it returns does not depend on a flag that was not
\* assigned (oob is what a read outside the vector yields).
C29_GetTimestamp ==
    \A i \in AccessorIndices, oob \in OutOfRangeOutcomes :
        /\ unsimulatedOutput => getTimestamp(i, oob) = 0
        /\ (_haveLastFrameTimestamp /\ i >= -1 /\ i < subFrames)
               => (IF i < 0 THEN 0 ELSE i) \in DOMAIN _timestamps
        /\ (~unsimulatedOutput /\ i >= 0 /\ i < subFrames)
               => getTimestamp(i, oob) = _timestamps[i]

\* C30: between the public calls, shader programs that are to be rebuilt
\* imply output targets that are to be recreated; so no accessor reports valid
\* output while the shader programs are stale.
C30_DirtyShadersImplyDirtyOutput ==
    /\ _recreateShaders => _recreateOutput
    /\ \A i \in AccessorIndices : haveValidOutput(i) => ~_recreateShaders

\* setOutput() was called after a frame was simulated: the shader programs
\* are stale and the frame is still recorded
C30_Witness ==
    /\ call.op = "setOutput" /\ ~exited
    /\ _recreateShaders /\ _haveLastFrameTimestamp /\ _programs # {}

-----------------------------------------------------------------------------
(* Output targets: a sensor whose outputs are switched on and off *)

\* a scene without animation, a pipeline with shadow maps and reflective
\* shadow maps, and every output or none
NextOutput ==
    Interface({StaticScene}, CameraAnimations, ChipTimings, Projections,
              {[DefaultPipeline EXCEPT !.shadowMaps = TRUE,
                                       !.reflectiveShadowMaps = TRUE]},
              {OutputWith(OutputFlags), OutputWith({})}, {0})

SpecOutput == Init /\ [][NextOutput]_vars

\* The accessor results of a Simulator without any valid output
NoResults ==
    [i \in AccessorIndices |->
        [getDepthTex |-> 0, getRGBTex |-> 0, getSRGBTex |-> 0, getPMDTex |-> 0,
         getPMDCoordinatesTex |-> 0, getEyeSpacePositionsTex |-> 0,
         getCustomSpacePositionsTex |-> 0, getEyeSpaceNormalsTex |-> 0,
         getCustomSpaceNormalsTex |-> 0, getDepthAndRangeTex |-> 0,
         getIndicesTex |-> 0, getForwardFlow3DTex |-> 0,
         getForwardFlow2DTex |-> 0, getBackwardFlow3DTex |-> 0,
         getBackwardFlow2DTex |-> 0,
         getShadowMapCubeTex |-> [l \in LightIndices |-> 0],
         getReflectiveShadowMapCubeArrayTex |-> [l \in LightIndices |-> 0]]]

NoData == [w |-> 0, h |-> 0, channels |-> 0]

\* C3: before the first simulate() since the construction or the last
\* setScene, setPipeline, setOutput or setProjection, every output accessor
\* returns 0 for every index; the accessor of an output kind whose flag is
\* false returns 0 for every index at any time; and the TexData made from the
\* handle 0 has width 0, height 0 and no channels.
C3_NoOutputReturnsZero ==
    ~exited =>
        /\ unsimulatedOutput => AccessorResults = NoResults
        /\ \A i \in AccessorIndices :
               LET r == AccessorResults[i]
               IN  /\ ~_output.rgb => r.getRGBTex = 0 /\ r.getSRGBTex = 0
                   /\ ~_output.srgb => r.getSRGBTex = 0
                   /\ ~_output.pmd => r.getPMDTex = 0 /\ r.getPMDCoordinatesTex = 0
                   /\ ~_output.pmdCoordinates => r.getPMDCoordinatesTex = 0
                   /\ ~_output.eyeSpacePositions => r.getEyeSpacePositionsTex = 0
                   /\ ~_output.customSpacePositions
                          => r.getCustomSpacePositionsTex = 0
                   /\ ~_output.eyeSpaceNormals => r.getEyeSpaceNormalsTex = 0
                   /\ ~_output.customSpaceNormals => r.getCustomSpaceNormalsTex = 0
                   /\ ~_output.depthAndRange => r.getDepthAndRangeTex = 0
                   /\ ~_output.indices => r.getIndicesTex = 0
                   /\ ~_output.forwardFlow3D => r.getForwardFlow3DTex = 0
                   /\ ~_output.forwardFlow2D => r.getForwardFlow2DTex = 0
                   /\ ~_output.backwardFlow3D => r.getBackwardFlow3DTex = 0
                   /\ ~_output.backwardFlow2D => r.getBackwardFlow2DTex = 0
                   /\ r.getRGBTex = 0 => TexData(r.getRGBTex, 4) = NoData
                   /\ r.getPMDTex = 0 => TexData(r.getPMDTex, 4) = NoData
                   /\ r.getDepthTex = 0 => TexData(r.getDepthTex, 1) = NoData

\* setProjection() was called after a frame was simulated with every output:
\* the targets of that frame still exist, and no accessor returns one
C3_Witness ==
    /\ ~exited /\ call.op = "setProjection" /\ unsimulatedOutput
    /\ _haveLastFrameTimestamp /\ _output.rgb /\ _output.backwardFlow2D
    /\ Size(_tex.rgbTexs) = 5 /\ _tex.rgbTexs[4] # 0
    /\ getRGBTex(-1) = 0 /\ TexData(getRGBTex(-1), 4) = NoData

-----------------------------------------------------------------------------
(* Configuration checks: a sensor that is given configurations simulate()
   refuses *)

\* two lights and one light animation
LightMismatchScene ==
    SceneOf(Vector2(DefaultLight, DefaultLight), Vector1(AnimationOf(<<0>>)),
            EmptyVector, EmptyVector)

\* one object and no object animation
ObjectMismatchScene ==
    SceneOf(Vector1(DefaultLight), Vector1(AnimationOf(<<0>>)),
            Vector1("object"), EmptyVector)

SpatialSamples(width, height) ==
    [DefaultPipeline EXCEPT !.spatialSamples = [width |-> width, height |-> height]]

NextConfig ==
    \/ Configuration(
           {DefaultScene, LightMismatchScene, ObjectMismatchScene, StaticScene},
           CameraAnimations, ChipTimings, Projections,
           {SpatialSamples(2, 1), SpatialSamples(3, 0),
            [DefaultPipeline EXCEPT !.preprocLensDistortion = TRUE,
                                    !.postprocLensDistortion = TRUE],
            [DefaultPipeline EXCEPT !.postprocLensDistortion = TRUE]},
           {OutputWith({"rgb", "indices"}), OutputWith({"rgb", "forwardFlow3D"})})
    \/ Call(Simulate(0))

SpecConfig == Init /\ [][NextConfig]_vars

\* The configurations simulate() is to refuse
Refused ==
    LET samples == _pipeline.spatialSamples.width * _pipeline.spatialSamples.height
    IN  \/ Size(_scene.lights) = 0
        \/ Size(_scene.lights) # Size(_scene.lightAnimations)
        \/ Size(_scene.objects) # Size(_scene.objectAnimations)
        \/ samples < 1
        \/ samples % 2 = 0
        \/ _pipeline.preprocLensDistortion /\ _pipeline.postprocLensDistortion
        \/ /\ _pipeline.postprocLensDistortion
           /\ \/ _output.indices
              \/ _output.forwardFlow3D \/ _output.forwardFlow2D
              \/ _output.backwardFlow3D \/ _output.backwardFlow2D

Setters ==
    {"setCameraAnimation", "setCameraTransformation", "setScene",
     "setChipTiming", "setPMD", "setProjection", "setPipeline", "setOutput",
     "setCustomTransformation"}

\* C6: simulate() called with a configuration that is to be refused
\* terminates the process before it runs a render pass and before it marks a
\* frame valid, whatever was called before; a setter never terminates the
\* process.
C6_RefusedConfigurationExits ==
    [][/\ (~exited /\ Refused /\ call'.op = "simulate")
            => /\ exited'
               /\ passes' = <<>>
               /\ _haveLastFrameTimestamp' = _haveLastFrameTimestamp
               /\ _lastFrameTimestamp' = _lastFrameTimestamp
       /\ (call'.op \in Setters) => ~exited']_vars

\* simulate() has terminated the process on a pipeline with both lens
\* distortions that was set after a frame was simulated
C6_Witness ==
    /\ exited /\ call.op = "simulate" /\ passes = <<>>
    /\ _pipeline.preprocLensDistortion /\ _pipeline.postprocLensDistortion
    /\ Size(_scene.lights) = 1
    /\ _haveLastFrameTimestamp /\ _lastFrameTimestamp = 0
    /\ _tex.depthBuffers # EmptyVector

-----------------------------------------------------------------------------
(* The frame loop of a caller: main() of camsim-flow, which configures the
   simulator and then simulates frame after frame up to the end of the
   animations.  The loop variable gets its first value from startTimestamp()
   or from nextFrameTimestamp(). *)

MainBegin ==
    /\ main_pc = "setup"
    /\ \/ StartTimestamp
       \/ NextFrameTimestamp
    /\ main_t' = ret'
    /\ main_pc' = "test"

MainTest ==
    /\ main_pc = "test"
    /\ EndTimestamp
    /\ main_pc' = IF main_t < ret' THEN "body" ELSE "done"
    /\ UNCHANGED main_t

MainSimulate ==
    /\ main_pc = "body"
    /\ Simulate(main_t)
    /\ main_pc' = "next"
    /\ UNCHANGED main_t

MainNext ==
    /\ main_pc = "next"
    /\ NextFrameTimestamp
    /\ main_t' = ret'
    /\ main_pc' = "test"

Main == MainBegin \/ MainTest \/ MainSimulate \/ MainNext

NextLoop ==
    \/ Configuration({MovingScene}, CameraAnimations,
                     {ChipTimingOf(2, TimeScale, 1), ChipTimingOf(0, 0, 0)},
                     Projections, Pipelines, Outputs)
    \/ Main

\* main() runs on: a step of it that can be taken is taken
SpecLoop == Init /\ [][NextLoop]_vars /\ WF_vars(Main)

\* C7: in the loop "t = nextFrameTimestamp(); while (t < endTimestamp())
\* { simulate(t); t = nextFrameTimestamp(); }" with frameDuration() > 0 the
\* first timestamp is startTimestamp(), every further one is the one before
\* plus frameDuration() and so greater, simulate() gets these timestamps, and
\* the loop ends.
C7_FrameLoopTerminates ==
    /\ [][/\ (main_pc = "setup" /\ main_pc' = "test")
               => main_t' = _startTimestamp'
          /\ (main_pc = "body" /\ main_pc' = "next")
               => call' = [op |-> "simulate", arg |-> main_t]
          /\ (main_pc = "next" /\ main_pc' = "test" /\ frameDuration > 0)
               => main_t' = main_t + frameDuration /\ main_t' > main_t]_vars
    /\ (main_pc # "setup" /\ frameDuration > 0)
           ~> (main_pc = "done" \/ exited)

\* the loop has ended after it simulated a frame later than the first
C7_Witness ==
    /\ main_pc = "done" /\ ~exited /\ frameDuration > 0
    /\ _haveLastFrameTimestamp /\ _lastFrameTimestamp > _startTimestamp
    /\ main_t = _lastFrameTimestamp + frameDuration
    /\ main_t >= _endTimestamp

-----------------------------------------------------------------------------
(* Animation bounds: a sensor whose camera, lights and objects are given
   animations of all kinds *)

\* two lights, of which the second is keyed at 1, and one object
BoundsScenes ==
    {SceneOf(Vector2(DefaultLight, DefaultLight),
             Vector2(a, AnimationOf(<<1>>)),
             Vector1("object"), Vector1(b)) :
        a \in Animations,
        b \in {DefaultAnimation, AnimationOf(<<MaxKeyTime>>),
               AnimationOf(<<1, MaxKeyTime>>)}}

NextBounds ==
    \/ \E a \in Animations : Call(SetCameraAnimation(a))
    \/ \E s \in BoundsScenes : Call(SetScene(s))
    \/ Call(StartTimestamp)
    \/ Call(EndTimestamp)

SpecBounds == Init /\ [][NextBounds]_vars

\* the camera animation and every light and object animation of the scene
InvolvedAnimations ==
    {_cameraAnimation}
    \cup {_scene.lightAnimations[i] : i \in DOMAIN _scene.lightAnimations}
    \cup {_scene.objectAnimations[i] : i \in DOMAIN _scene.objectAnimations}

Least(S) == CHOOSE x \in S : \A y \in S : x <= y
Greatest(S) == CHOOSE x \in S : \A y \in S : x >= y

-----------------------------------------------------------------------------
(* Chip timings: a sensor that is given chip timings of all kinds, with and
   without time-of-flight output *)

NextChip ==
    \/ \E e \in 0..MaxChipTime, r \in 0..MaxChipTime, p \in 0..MaxChipTime :
           Call(SetChipTiming(ChipTimingOf(e, r, p)))
    \/ \E o \in {DefaultOutput, OutputWith({"rgb", "pmd"})} : Call(SetOutput(o))
    \/ Call(SubFrameDuration)
    \/ Call(FrameDuration)

SpecChip == Init /\ [][NextChip]_vars

\* the number of sub-frames: 4 iff time-of-flight output is enabled
SubFrameCount == IF _output.pmd THEN 4 ELSE 1

\* C9 as stated: frameDuration() is
\* subFrameCount * (exposureTime + readoutTime) * 1e6 + pauseTime * 1e6,
\* in whole microseconds.
C9_FrameDurationLaw ==
    call.op = "frameDuration"
        => ret = Trunc(SubFrameCount
                           * (_chipTiming.exposureTime + _chipTiming.readoutTime)
                           + _chipTiming.pauseTime,
                       TimeScale)

\* C9 amended: subFrameDuration() is (exposureTime + readoutTime) * 1e6 cut to
\* whole microseconds, and frameDuration() is
\* subFrameCount * subFrameDuration() + pauseTime * 1e6 cut to whole
\* microseconds.
C9_FrameDurationOfWholeSubFrames ==
    LET whole == (_chipTiming.exposureTime + _chipTiming.readoutTime)
                     \div TimeScale
    IN  /\ call.op = "subFrameDuration" => ret = whole
        /\ call.op = "frameDuration"
               => ret = (SubFrameCount * whole * TimeScale + _chipTiming.pauseTime)
                            \div TimeScale

\* frameDuration() has returned 4 for four sub-frames of one and a third
\* microseconds each
C9_Witness ==
    /\ call.op = "frameDuration" /\ _output.pmd /\ ret = 4
    /\ _chipTiming.exposureTime + _chipTiming.readoutTime = TimeScale + 1

-----------------------------------------------------------------------------
(* SpecFlow: the flow outputs, with one sub-frame and with four *)

NextFlow ==
    \/ Configuration({StaticScene}, {DefaultAnimation}, ChipTimings,
                     Projections, {DefaultPipeline},
                     {OutputWith({"forwardFlow2D"}),
                      OutputWith({"rgb", "backwardFlow3D"}),
                      OutputWith({"pmd", "forwardFlow3D"})})
    \/ \E t \in 0..MaxTime : Call(Simulate(t))

SpecFlow == Init /\ [][NextFlow]_vars

\* What the texture or depth buffer h holds when pass k of the passes ps of a
\* call of simulate() runs on the GPU memory mem: the timestamp rendered and
\* who rendered it (calls = 0: an earlier pass of this call, 1: the call
\* before, 2: a call before that, -1: nobody since h was created)
Held(mem, ps, h, k) ==
    IF LastWrite(ps, h, k - 1) # 0
    THEN [t |-> ps[LastWrite(ps, h, k - 1)].t, calls |-> 0]
    ELSE IF h \in DOMAIN mem THEN mem[h] ELSE [t |-> 0, calls |-> -1]

\* C19: with one sub-frame and a flow output, in every call of simulate()
\* after the first since the targets were last recreated, the 'last' depth
\* buffer of the flow pass is another buffer than the one the pass renders
\* into, and it holds the depth the call of simulate() before rendered: not
\* depth rendered earlier in this call, and it is not a buffer that nobody
\* rendered into since it was created.
C19_LastDepthOfPreviousCall ==
    [][(/\ call'.op = "simulate" /\ ~exited'
        /\ subFrames = 1 /\ AnyFlowOutput
        /\ ~_recreateShaders /\ ~_recreateOutput /\ ~unsimulatedOutput)
       => \A k \in 1..Len(passes') :
              passes'[k].pass = "flow"
              => /\ passes'[k].lastDepthBuf # passes'[k].depthBuf
                 /\ Held(rendered, passes', passes'[k].lastDepthBuf, k).calls
                      = 1]_vars

\* C20: with four sub-frames and a flow output, every flow pass that is given
\* a 'last' depth buffer is given a buffer that holds depth rendered at the
\* 'last' timestamp given to the same pass.
C20_LastDepthAtLastTimestamp ==
    [][(/\ call'.op = "simulate" /\ ~exited'
        /\ subFrames = 4 /\ AnyFlowOutput)
       => \A k \in 1..Len(passes') :
              (passes'[k].pass = "flow" /\ passes'[k].lastDepthBuf # 0)
              => LET held == Held(IF _recreateOutput THEN EmptyVector
                                                     ELSE rendered,
                                  passes', passes'[k].lastDepthBuf, k)
                 IN  held.calls >= 0 /\ held.t = passes'[k].lastT]_vars

\* C21: in the first call simulate(t) since the configuration was set (no
\* frame is recorded when the passes run), the flow pass of sub-frame 0 and,
\* with four sub-frames, the final flow pass of the whole frame are given t as
\* the 'last' timestamp and no 'last' depth buffer.
C21_FirstFrameFlowHasNoLast ==
    [][(/\ call'.op = "simulate" /\ ~exited'
        /\ AnyFlowOutput
        /\ (~_haveLastFrameTimestamp \/ _recreateShaders \/ _recreateOutput))
       => \A k \in 1..Len(passes') :
              (passes'[k].pass = "flow" /\ passes'[k].subFrame = 0)
              => /\ passes'[k].lastT = call'.arg
                 /\ passes'[k].lastDepthBuf = 0]_vars

\* C27: after setScene, setCameraAnimation, setChipTiming, setPipeline,
\* setOutput or setProjection, the next call simulate(t) treats its frame as
\* the first of a new epoch, with or without a timestamp query in between: the
\* flow pass of sub-frame 0 is given t as the 'last' timestamp, and neither it
\* nor the flow pass of the whole frame is given a 'last' depth buffer.
C27_SetterStartsEpoch ==
    [][(/\ call'.op = "simulate" /\ ~exited'
        /\ AnyFlowOutput /\ unsimulatedSetter)
       => \A k \in 1..Len(passes') :
              (passes'[k].pass = "flow" /\ passes'[k].subFrame = 0)
              => /\ passes'[k].lastDepthBuf = 0
                 /\ passes'[k].targets = _tex'.flowSimOutputTexs[0]
                        => passes'[k].lastT = call'.arg]_vars

-----------------------------------------------------------------------------
(* SpecPasses: the pass schedule of simulate() for pipelines with and without
   lens distortion, oversampling and shadow maps, and for outputs of every
   group *)

NextPasses ==
    \/ Call(SetScene(StaticScene))
    \/ \E p \in {DefaultPipeline,
                 [DefaultPipeline EXCEPT !.postprocLensDistortion = TRUE],
                 [DefaultPipeline EXCEPT !.temporalSamples = 2,
                                         !.shadowMaps = TRUE],
                 SpatialSamples(3, 1)} :
           Call(SetPipeline(p))
    \/ \E o \in {OutputWith({}),
                 OutputWith({"rgb", "srgb", "pmd", "eyeSpacePositions",
                             "eyeSpaceNormals", "depthAndRange"}),
                 OutputWith({"pmd", "srgb"}),
                 OutputWith({"rgb", "indices", "forwardFlow2D"}),
                 OutputWith({"rgb", "pmd", "pmdCoordinates", "indices",
                             "backwardFlow3D"})} :
           Call(SetOutput(o))
    \/ \E t \in {0, MaxTime} : Call(Simulate(t))

SpecPasses == InitObjects /\ [][NextPasses]_vars

RECURSIVE Distortions(_, _, _)
\* How often the lens distortion was applied to what the texture h holds
\* after the first n of the passes ps: simulatePostprocLensDistortion() copies
\* the distorted image back into its source texture with glCopyImageSubData;
\* a pass that reads a texture hands on what was done to it; a pass that
\* renders the scene starts anew
Distortions(ps, h, n) ==
    IF n = 0 THEN 0
    ELSE IF ps[n].pass = "postprocLensDistortion" /\ ps[n].source = h
         THEN Distortions(ps, h, n - 1) + 1
         ELSE IF Writes(ps[n], h)
              THEN IF ps[n].source > 0
                   THEN Distortions(ps, ps[n].source, n - 1)
                   ELSE 0
              ELSE Distortions(ps, h, n - 1)

\* the image outputs of sub-frame i a caller can read, 0 where there is none
ImageOutputs(i) ==
    {getRGBTex(i), getSRGBTex(i), getPMDTex(i), getEyeSpacePositionsTex(i),
     getCustomSpacePositionsTex(i), getEyeSpaceNormalsTex(i),
     getCustomSpaceNormalsTex(i), getDepthAndRangeTex(i)}

\* C22: with postprocLensDistortion, when simulate() returns the lens
\* distortion has been applied exactly once to every image output of every
\* sub-frame: RGB, sRGB, PMD digital numbers, positions, normals, depth and
\* range.
C22_LensDistortionOnce ==
    [][(/\ call'.op = "simulate" /\ ~exited'
        /\ _pipeline.postprocLensDistortion)
       => \A i \in 0..(subFrames - 1) :
              \A h \in ImageOutputs(i)' :
                  h > 0 => Distortions(passes', h, Len(passes')) = 1]_vars

RECURSIVE Accumulated(_, _, _, _)
\* The passes whose output the texture h holds after the first n of the
\* passes ps, if it held the output of the passes `held` before: prepareFBO()
\* clears the colour attachments of a pass unless the pass blends onto them
Accumulated(held, ps, h, n) ==
    IF n = 0 THEN held
    ELSE IF Writes(ps[n], h)
         THEN (IF ps[n].clear THEN {} ELSE Accumulated(held, ps, h, n - 1))
              \cup {n}
         ELSE Accumulated(held, ps, h, n - 1)

\* the reductions of the oversampled light of sub-frame s among the passes ps
Reductions(ps, s) ==
    {k \in 1..Len(ps) : ps[k].pass = "oversampledLight" /\ ps[k].subFrame = s}

\* C23: with oversampling, after the temporal samples of a sub-frame its light
\* targets hold the sum of exactly the temporalSamples reduced samples of that
\* sub-frame: the targets are cleared for sample 0 and for no other sample, so
\* nothing an earlier sub-frame or an earlier call of simulate() left (pass 0
\* here) remains, and no sample of the sub-frame is overwritten.
C23_LightTargetSumsSamples ==
    [][(/\ call'.op = "simulate" /\ ~exited'
        /\ spatialOversampling \/ temporalOversampling
        /\ _output.rgb \/ _output.pmd)
       => \A s \in 0..(subFrames - 1) :
              LET own == Reductions(passes', s)
                  last == CHOOSE k \in own : \A j \in own : j <= k
              IN  /\ Cardinality(own) = _pipeline.temporalSamples
                  /\ \A k \in own : passes'[k].clear <=> passes'[k].sample = 0
                  /\ passes'[last].targets # <<>>
                  /\ \A i \in 1..Len(passes'[last].targets) :
                         Accumulated({0}, passes', passes'[last].targets[i], last)
                             = own]_vars

\* a frame of four sub-frames was simulated with two temporal samples
C23_Witness ==
    /\ call.op = "simulate" /\ ~exited
    /\ _pipeline.temporalSamples = 2 /\ _output.rgb /\ _output.pmd
    /\ Cardinality(Reductions(passes, 3)) = 2

\* the passes of the given names for sub-frame s among the passes ps
Named(ps, names, s) ==
    {k \in 1..Len(ps) : ps[k].pass \in names /\ ps[k].subFrame = s}

\* the flow pass of the whole frame among the passes ps: the one that renders
\* into the flow targets after those of the sub-frames, of the targets tex
FrameFlow(ps, tex) ==
    {k \in 1..Len(ps) : /\ ps[k].pass = "flow" /\ subFrames > 1
                        /\ ps[k].targets = tex.flowSimOutputTexs[subFrames]}

\* the passes after the loop over the sub-frames: the combinations to the
\* results of the whole frame
FinalCombinations(ps, tex) ==
    Named(ps, {"rgbResult", "pmdResult", "pmdCoordinates", "convertToSRGB"},
          subFrames)
    \cup FrameFlow(ps, tex)

\* C24: the passes of a call of simulate() run one after the other in the
\* order of their dependencies: for each sub-frame and temporal sample the
\* shadow maps before the light pass and the light pass before its reduction;
\* the PMD digital numbers of a sub-frame after its last temporal sample; the
\* flow pass of a sub-frame after its geometry pass; the final combinations
\* after the light, digital number and flow passes of every sub-frame.  The
\* frame is recorded as the last frame only after the last pass.
C24_PassesInDependencyOrder ==
    [][call'.op = "simulate"
       => /\ ~exited'
             => LET ps == passes'
                    final == FinalCombinations(ps, _tex')
                IN  /\ \A s \in 0..(subFrames - 1) :
                        /\ \A a \in Named(ps, {"shadowMaps"}, s),
                              b \in Named(ps, {"light"}, s) :
                               ps[a].sample = ps[b].sample => a < b
                        /\ \A a \in Named(ps, {"light"}, s),
                              b \in Named(ps, {"oversampledLight"}, s) :
                               ps[a].sample = ps[b].sample => a < b
                        /\ \A a \in Named(ps, {"shadowMaps", "light",
                                               "oversampledLight"}, s),
                              b \in Named(ps, {"pmdDigNums"}, s) : a < b
                        /\ \A a \in Named(ps, {"geometry"}, s),
                              b \in Named(ps, {"flow"}, s) \ final : a < b
                        /\ \A a \in Named(ps, {"light", "oversampledLight",
                                               "pmdDigNums", "flow"}, s) \ final,
                              b \in final : a < b
                    /\ _haveLastFrameTimestamp'
                    /\ _lastFrameTimestamp' = call'.arg
          /\ exited'
             => /\ _lastFrameTimestamp' = _lastFrameTimestamp
                /\ _haveLastFrameTimestamp' => _haveLastFrameTimestamp]_vars

\* a frame of four sub-frames was simulated with shadow maps, two temporal
\* samples, geometry, flow and PMD outputs
C24_Witness ==
    /\ call.op = "simulate" /\ ~exited
    /\ \A s \in 0..3 :
           \A name \in {"shadowMaps", "light", "oversampledLight", "pmdDigNums",
                        "geometry", "flow"} :
               Named(passes, {name}, s) # {}
    /\ Cardinality(FinalCombinations(passes, _tex)) = 4

\* C25: the configuration determines the passes of a call of simulate(): for
\* each sub-frame the light pass runs temporalSamples times if rgb or pmd is
\* enabled and else not at all, the geometry pass once if a positions, normals,
\* depthAndRange or indices output is enabled and else not at all, the flow
\* pass once if a flow output is enabled and else not at all; the final
\* combinations run, each once, if and only if subFrames() > 1.
C25_PassScheduleOfConfiguration ==
    [][(call'.op = "simulate" /\ ~exited')
       => LET ps == passes'
              final == FinalCombinations(ps, _tex')
              Count(S) == Cardinality(S)
          IN  /\ \A s \in 0..(subFrames - 1) :
                     /\ Count(Named(ps, {"light"}, s))
                          = (IF _output.rgb \/ _output.pmd
                             THEN _pipeline.temporalSamples ELSE 0)
                     /\ Count(Named(ps, {"geometry"}, s))
                          = (IF \/ _output.eyeSpacePositions
                                \/ _output.customSpacePositions
                                \/ _output.eyeSpaceNormals
                                \/ _output.customSpaceNormals
                                \/ _output.depthAndRange
                                \/ _output.indices
                             THEN 1 ELSE 0)
                     /\ Count(Named(ps, {"flow"}, s) \ final)
                          = (IF \/ _output.forwardFlow3D \/ _output.forwardFlow2D
                                \/ _output.backwardFlow3D \/ _output.backwardFlow2D
                             THEN 1 ELSE 0)
              /\ \A k \in (1..Len(ps)) \ final : ps[k].subFrame < subFrames
              /\ final # {} <=> subFrames > 1
              /\ \A j, k \in final : ps[j].pass = ps[k].pass => j = k]_vars

\* a frame of four sub-frames was simulated with two temporal samples and
\* the indices and flow outputs
C25_Witness ==
    /\ call.op = "simulate" /\ ~exited
    /\ Cardinality(Named(passes, {"light"}, 3)) = 2
    /\ _output.indices /\ Named(passes, {"geometry"}, 3) # {}
    /\ AnyFlowOutput /\ FrameFlow(passes, _tex) # {}

\* the programs the pass p runs (simulateShadowMaps() runs the programs of the
\* kinds of shadow map the pipeline has)
ProgramsOf(p) ==
    CASE p.pass = "shadowMaps" ->
             (IF _pipeline.shadowMaps THEN {"shadowMapPrg"} ELSE {})
             \cup (IF _pipeline.reflectiveShadowMaps
                   THEN {"reflectiveShadowMapPrg"} ELSE {})
      [] p.pass = "light" -> {"lightPrg"}
      [] p.pass = "oversampledLight" -> {"lightOversampledPrg"}
      [] p.pass = "pmdDigNums" -> {"pmdDigNumPrg"}
      [] p.pass = "postprocLensDistortion" -> {"postprocLensDistortionPrg"}
      [] p.pass = "convertToSRGB" -> {"convertToSRGBPrg"}
      [] p.pass = "geometry" -> {"geomPrg"}
      [] p.pass = "flow" -> {"flowPrg"}
      [] p.pass = "rgbResult" -> {"rgbResultPrg"}
      [] p.pass = "pmdResult" -> {"pmdResultPrg"}
      [] p.pass = "pmdCoordinates" -> {"pmdCoordinatesPrg"}

\* C28: for every Output and Pipeline that pass the fatal checks of
\* recreateShadersIfNecessary(), a call of simulate() reads the per-sub-frame
\* target lists only at positions that are allocated and runs only programs
\* that were built.
C28_SimulateWithinAllocatedTargets ==
    [][(call'.op = "simulate" /\ ~(_recreateShaders /\ FatalConfiguration))
       => LET haveLast ==
                  IF _recreateShaders \/ _recreateOutput
                  THEN FALSE ELSE _haveLastFrameTimestamp
              reads ==
                  PassSequence(call'.arg, haveLast, depthBufferPingPong,
                               simulateTimestamps(call'.arg), _tex', Crashes)
          IN  \A k \in 1..Len(reads) :
                  /\ ~ReadsOutOfRange(reads[k], Crashes)
                  /\ ProgramsOf(reads[k]) \subseteq _programs']_vars

-----------------------------------------------------------------------------
(* SpecExport: the caller retrieves the sRGB image of the frames it simulates
   and exports it with an Exporter (exporter.hpp), as main() of camsim-flow
   does *)

\* Simulator::getSRGB(i): the TexData of the sRGB texture (of an image of at
\* most MaxHeight rows)
GetSRGB(i) ==
    /\ ~exited
    /\ _projection.h <= MaxHeight
    /\ texData' = setTexture(getSRGBTex(i), 3)
    /\ call' = [op |-> "getSRGB", arg |-> i]
    /\ ret' = 0
    /\ UNCHANGED <<configVars, timestampVars, outputVars, resultVars, passes,
                   callerVars, exited, unsimulatedOutput, unsimulatedSetter,
                   objectVars, _asyncExportFileNames, _asyncExports>>

\* Variant of checkExportRequest() without the check of the pending names
checkExportRequest_AnyName(fileName, data) ==
    /\ fileName.format # "Auto"
    /\ data.channels = 1 \/ data.channels = 3

\* Exporter::checkExportRequest(asyncExporter, fileName, FileFormat_Auto,
\* { data }, ...) for a file name that ends in ".png" (format "PNG") or in no
\* known extension (format "Auto"), and 8 bit data
checkExportRequest(fileName, data) ==
    /\ fileName.format # "Auto"
    /\ ~\E k \in DOMAIN _asyncExportFileNames :
           _asyncExportFileNames[k] = fileName
    /\ data.channels = 1 \/ data.channels = 3

\* Exporter::asyncExportData(fileName, data) with the TexData of the caller
AsyncExportData(fileName) ==
    /\ ~exited
    /\ IF checkExportRequest(fileName, texData)
       THEN /\ _asyncExportFileNames' =
                   Insert(_asyncExportFileNames, Size(_asyncExportFileNames),
                          fileName)
            /\ _asyncExports' =
                   Insert(_asyncExports, Size(_asyncExports),
                          [fileName |-> fileName, dataList |-> texData,
                           finished |-> FALSE, written |-> EmptyVector])
            /\ ObjectCall("asyncExportData", fileName, TRUE)
       ELSE /\ UNCHANGED <<_asyncExportFileNames, _asyncExports>>
            /\ ObjectCall("asyncExportData", fileName, FALSE)
    /\ UNCHANGED <<objectVars, texData>>

\* Variant of the export task that writes the image the Simulator holds when
\* the task runs
WritePNG_Latest(k) ==
    /\ ~exited
    /\ k \in DOMAIN _asyncExports /\ ~_asyncExports[k].finished
    /\ _asyncExports' =
           [_asyncExports EXCEPT
               ![k].finished = TRUE,
               ![k].written = setTexture(getSRGBTex(-1), 3).packedData]
    /\ ObjectCall("writePNG", k, 0)
    /\ UNCHANGED <<objectVars, texData, _asyncExportFileNames>>

\* The task QtConcurrent::run(writePNG, fileName, dataList, ...) of the
\* export k runs in its thread: it writes its copy of the data to the file
\* (QImage::save() succeeds)
WritePNG(k) ==
    /\ ~exited
    /\ k \in DOMAIN _asyncExports /\ ~_asyncExports[k].finished
    /\ _asyncExports' =
           [_asyncExports EXCEPT
               ![k].finished = TRUE,
               ![k].written = _asyncExports[k].dataList.packedData]
    /\ ObjectCall("writePNG", k, 0)
    /\ UNCHANGED <<objectVars, texData, _asyncExportFileNames>>

\* Exporter::waitForAsyncExports(): QFuture::result() waits for each task, so
\* the call returns once every task has finished
WaitForAsyncExports ==
    /\ ~exited
    /\ \A k \in DOMAIN _asyncExports : _asyncExports[k].finished
    /\ _asyncExports' = EmptyVector
    /\ _asyncExportFileNames' = EmptyVector
    /\ ObjectCall("waitForAsyncExports", 0, TRUE)
    /\ UNCHANGED <<objectVars, texData>>

\* The calls of the caller: the frames 0 and MaxTime, images of MaxHeight - 1
\* and MaxHeight rows, the file names "0000-rgb.png", "0001-rgb.png" and "rgb"
NextExport ==
    \/ Call(SetScene(StaticScene))
    \/ \E h \in (MaxHeight - 1)..MaxHeight : Call(SetProjection([w |-> 1, h |-> h]))
    \/ Call(SetOutput(OutputWith({"rgb", "srgb"})))
    \/ \E t \in {0, MaxTime} : Call(Simulate(t))
    \/ GetSRGB(-1)
    \/ \E fileName \in {[name |-> "0000-rgb", format |-> "PNG"],
                        [name |-> "0001-rgb", format |-> "PNG"],
                        [name |-> "rgb", format |-> "Auto"]} :
           AsyncExportData(fileName)
    \/ \E k \in 0..1 : WritePNG(k)
    \/ WaitForAsyncExports

SpecExport == InitObjects /\ [][NextExport]_vars

\* C16: the TexData read back from a texture of height H, odd or even, holds
\* in row y the row H - 1 - y of the texture as the GPU delivers it: the rows
\* are flipped exactly once
C16_ReadBackRowsFlipped ==
    (call.op = "getSRGB" /\ getSRGBTex(-1) # 0)
        => /\ texData.h = _projection.h
           /\ DOMAIN texData.packedData = 0..(texData.h - 1)
           /\ \A y \in 0..(texData.h - 1) :
                  texData.packedData[y]
                      = <<rendered[getSRGBTex(-1)].t, texData.h - 1 - y>>

\* a texture of an odd height of at least three rows was read back
C16_Witness ==
    /\ call.op = "getSRGB"
    /\ getSRGBTex(-1) # 0
    /\ texData.h >= 3 /\ texData.h % 2 = 1

\* the rows of frame t of an image of h rows, as a TexData holds them
FrameRows(t, h) == [y \in 0..(h - 1) |-> <<t, h - 1 - y>>]

\* C17: the TexData an output accessor returns after simulate(t) holds frame
\* t, no later call of simulate() or of a setter changes what it holds, and an
\* asynchronous export started with it writes the data of frame t, also when
\* simulate(t') ran before the export finished
C17_TexDataIsSnapshot ==
    [][/\ (call'.op = "getSRGB" /\ getSRGBTex(-1)' # 0)
              => /\ texData'.frame = _lastFrameTimestamp'
                 /\ texData'.packedData
                        = FrameRows(_lastFrameTimestamp', texData'.h)
       /\ call'.op # "getSRGB" => texData' = texData
       /\ \A k \in DOMAIN _asyncExports' :
              _asyncExports'[k].finished
                  => _asyncExports'[k].written
                         = FrameRows(_asyncExports'[k].dataList.frame,
                                     _asyncExports'[k].dataList.h)]_vars

\* an export of the image of one frame finished after another frame was
\* simulated
C17_Witness ==
    /\ call.op = "writePNG"
    /\ \E k \in DOMAIN _asyncExports :
           /\ _asyncExports[k].finished
           /\ _asyncExports[k].dataList.h > 0
           /\ _asyncExports[k].dataList.frame # _lastFrameTimestamp
           /\ getSRGBTex(-1) # 0

\* the file name is registered with the Exporter
Pending(fileName) ==
    \E k \in DOMAIN _asyncExportFileNames : _asyncExportFileNames[k] = fileName

\* C18: an Exporter has at most one pending asynchronous export per file name:
\* asyncExportData() for a name with a pending export returns false and starts
\* no task, a rejected request registers no name, and a name becomes available
\* again only when waitForAsyncExports() has waited for every pending export
C18_OnePendingExportPerName ==
    [][/\ \A j, k \in DOMAIN _asyncExports' :
              _asyncExports'[j].fileName = _asyncExports'[k].fileName => j = k
       /\ (call'.op = "asyncExportData" /\ Pending(call'.arg))
              => ret' = FALSE /\ _asyncExports' = _asyncExports
       /\ (call'.op = "asyncExportData" /\ ret' = FALSE)
              => _asyncExportFileNames' = _asyncExportFileNames
       /\ (\E k \in DOMAIN _asyncExportFileNames :
               \A j \in DOMAIN _asyncExportFileNames' :
                   _asyncExportFileNames'[j] # _asyncExportFileNames[k])
              => /\ call'.op = "waitForAsyncExports"
                 /\ \A k \in DOMAIN _asyncExports : _asyncExports[k].finished
                 /\ _asyncExportFileNames' = EmptyVector]_vars

\* asyncExportData() was called for a name whose export is pending, while the
\* export of another name is pending too
C18_Witness ==
    /\ call.op = "asyncExportData"
    /\ ret = FALSE
    /\ Pending(call.arg)
    /\ Size(_asyncExports) = 2

-----------------------------------------------------------------------------
(* SpecAnimation: an Animation of the caller behind its public interface
   (animation.hpp) *)

\* Animation::Animation()
AnimationDefault ==
    /\ _keyframes' = DefaultAnimation
    /\ keyframesGiven' = FALSE
    /\ ObjectCall("Animation", 0, 0)
    /\ UNCHANGED exportVars

\* Animation::Animation(keyframes)
AnimationList(keyframes) ==
    /\ _keyframes' = keyframes
    /\ keyframesGiven' = TRUE
    /\ ObjectCall("Animation(keyframes)", 0, 0)
    /\ UNCHANGED exportVars

\* Animation::addKeyframe(keyframe)
AddKeyframe(keyframe) ==
    /\ _keyframes' = addKeyframe(_keyframes, keyframe)
    /\ ObjectCall("addKeyframe", keyframe, 0)
    /\ UNCHANGED <<keyframesGiven, exportVars>>

\* Animation::interpolate(t)
Interpolate(t) ==
    /\ ObjectCall("interpolate", t, interpolate(_keyframes, t))
    /\ UNCHANGED <<objectVars, exportVars>>

\* Animation::load(filename): a file that cannot be opened leaves the
\* keyframes alone; otherwise the keyframes are cleared and the lines added
Load(file) ==
    \E loaded \in {IF file.opens THEN load(_keyframes, EmptyVector, file.lines)
                   ELSE [ok |-> FALSE, keyframes |-> _keyframes]} :
        /\ _keyframes' = loaded.keyframes
        /\ keyframesGiven' = (keyframesGiven /\ ~loaded.ok)
        /\ ObjectCall("load", 0, loaded.ok)
        /\ UNCHANGED exportVars

\* The calls on the Animation: addKeyframe() with times 0..MaxAnimationTime
\* and two transformations, the constructor with the lists of at most two
\* keyframes in any order, load() with the files of at most two lines and
\* with a file that cannot be opened
NextAnimation ==
    LET keyframes == {Keyframe(t, x) : t \in 0..MaxAnimationTime,
                                      x \in {Translation(1), Translation(2)}}
        listed == {Keyframe(t, Translation(1)) : t \in 0..MaxKeyTime}
        lists == {EmptyVector} \cup {Vector1(k) : k \in listed}
                 \cup {Vector2(k, l) : k \in listed, l \in listed}
        lines == {[valid |-> TRUE, time |-> 2 * TimeScale,
                   transformation |-> Translation(1)],
                  [valid |-> TRUE, time |-> TimeScale + 1,
                   transformation |-> Translation(2)],
                  [valid |-> FALSE, time |-> 0,
                   transformation |-> DefaultTransformation]}
        given == {[opens |-> FALSE, lines |-> <<>>]}
                 \cup {[opens |-> TRUE, lines |-> l] :
                          l \in {<<>>} \cup {<<k>> : k \in lines}
                                \cup (lines \X lines)}
    IN  \/ AnimationDefault
        \/ \E list \in lists : AnimationList(list)
        \/ \E keyframe \in keyframes : AddKeyframe(keyframe)
        \/ \E t \in 0..MaxAnimationTime : Interpolate(t)
        \/ \E file \in given : Load(file)

SpecAnimation == InitObjects /\ [][NextAnimation]_vars

\* C12: however the Animation was constructed and whatever addKeyframe()
\* calls followed, its keyframes are sorted strictly ascending by timestamp.
C12_KeyframesStrictlyAscending ==
    \A i \in DOMAIN _keyframes : \A j \in DOMAIN _keyframes :
        i < j => _keyframes[i].t < _keyframes[j].t

\* C13: addKeyframe(t, X) on an Animation that has a keyframe at t leaves the
\* number of keyframes unchanged, replaces that keyframe by X at t and leaves
\* every other keyframe unchanged.
C13_AddKeyframeOverwrites ==
    [][(/\ call'.op = "addKeyframe"
        /\ \E k \in DOMAIN _keyframes : _keyframes[k].t = call'.arg.t)
       => /\ Size(_keyframes') = Size(_keyframes)
          /\ \A k \in DOMAIN _keyframes :
                 _keyframes'[k] = IF _keyframes[k].t = call'.arg.t
                                  THEN call'.arg ELSE _keyframes[k]]_vars

\* the value C14 states for interpolate(t)
Stated(keyframes, t) ==
    IF Size(keyframes) = 0 THEN {DefaultTransformation}
    ELSE IF t <= keyframes[0].t THEN {keyframes[0].transformation}
    ELSE IF t >= Last(keyframes).t THEN {Last(keyframes).transformation}
    ELSE IF \E k \in DOMAIN keyframes : keyframes[k].t = t
    THEN {keyframes[k].transformation :
             k \in {k \in DOMAIN keyframes : keyframes[k].t = t}}
    ELSE {TransformationInterpolate(
              keyframes[lo].transformation, keyframes[hi].transformation,
              <<t - keyframes[lo].t, keyframes[hi].t - keyframes[lo].t>>) :
             <<lo, hi>> \in
                 {p \in (DOMAIN keyframes) \X (DOMAIN keyframes) :
                     /\ keyframes[p[1]].t < t /\ t < keyframes[p[2]].t
                     /\ ~\E k \in DOMAIN keyframes :
                            /\ keyframes[p[1]].t < keyframes[k].t
                            /\ keyframes[k].t < keyframes[p[2]].t}}

\* C14: for an Animation built by addKeyframe() calls, interpolate(t) is the
\* identity if there are no keyframes, the first keyframe's transformation if
\* t is at or before the first timestamp, the last keyframe's if t is at or
\* after the last timestamp, the keyframe's own if t is a keyframe timestamp,
\* and otherwise the blend of the two adjacent keyframes lo, hi with
\* lo.t < t < hi.t at alpha = (t - lo.t) / (hi.t - lo.t).
C14_InterpolateValue ==
    (call.op = "interpolate" /\ ~keyframesGiven) =>
        Stated(_keyframes, call.arg) = {ret}

\* C14 witness: interpolate(t) was called on an Animation built by
\* addKeyframe() calls with t between its second and its third keyframe
C14_Witness ==
    /\ call.op = "interpolate" /\ ~keyframesGiven
    /\ Size(_keyframes) >= 3
    /\ _keyframes[1].t < call.arg /\ call.arg < _keyframes[2].t
    /\ _keyframes[1].transformation # _keyframes[2].transformation

\* C15: a default-constructed Animation has exactly one keyframe, at t = 0
\* with the default transformation; after a following addKeyframe(t1, X) with
\* t1 > 0 it has two keyframes and startTime() is still 0.
C15_DefaultAnimationHasKeyframe ==
    [][/\ call'.op = "Animation"
          => /\ Size(_keyframes') = 1
             /\ _keyframes'[0] = Keyframe(0, DefaultTransformation)
       /\ (call.op = "Animation" /\ call'.op = "addKeyframe" /\ call'.arg.t > 0)
          => /\ Size(_keyframes') = 2
             /\ startTime(_keyframes') = 0]_vars
====
